---- MODULE Spec2Model ----
(***************************************************************************)
(* Model of the TickTick MCP server: its credential cache (TokenManager)   *)
(* with the promise machinery getValidAccessToken relies on, the API       *)
(* client that authorizes, queues and retries requests, and the tool layer *)
(* that maps tool names to handlers.                                       *)
(*                                                                         *)
(* Time is counted in whole seconds by the cache (node-cache keeps         *)
(* milliseconds; every TTL the program passes is a whole number of         *)
(* seconds) and in milliseconds by the API client's timers.                *)
(* A JavaScript promise is a record with a state; the callers suspended on *)
(* it are its reactions, and settling it appends one job per reaction, in  *)
(* registration order, to the microtask queue.  Nothing from outside (a    *)
(* new call, a timer, an HTTP request, a network response) runs while the  *)
(* microtask queue is not empty.                                           *)
(*                                                                         *)
(* Spec is the cache under concurrent calls, refresh successes and         *)
(* failures, the OAuth callback, clearTokens and token expiry; FairSpec    *)
(* adds that refresh calls settle and queued continuations run;            *)
(* SpecLifetime is the cache under every declared expires_in with a clock  *)
(* that stands just before, at and just after each lifetime; SpecRotation  *)
(* is the cache over the thirty days of a refresh token; SpecClient is the *)
(* API client over the cache; SpecTools is executeTool and the handlers.   *)
(***************************************************************************)
EXTENDS Integers, Sequences, FiniteSets, TLC

\* ------------------------------------------------------------------ bounds
NumCalls == 3   \* calls of getValidAccessToken in one behaviour
MaxTicks == 2   \* clock advances in one behaviour
NumRequests == 2      \* API client operations in one behaviour
NumInvocations == 2   \* tool invocations in one behaviour

\* each call of getValidAccessToken is made by a caller of its own
Callers == 1..NumCalls

\* each API client operation is one request through queueRequest
Requests == 1..NumRequests

\* each executeTool call is an invocation of its own
Invocations == 1..NumInvocations

\* a promise returned by refreshAccessToken is named after the call that
\* obtained it
PromiseIds == Callers

\* seconds the clock may jump in one advance: past the lifetime of every
\* access token
ExpirySteps == {3301}

\* the jumps of the rotation specification: past the lifetime of an access
\* token, from there to one second past the thirtieth day, and thirty days
RotationSteps == {3301, 30 * 24 * 60 * 60 - 3300, 30 * 24 * 60 * 60}

\* the finer jumps of the lifetime specification: the second before, the
\* second of and the second after each computed and each declared lifetime
LifetimeSteps == {59, 60, 61, 120, 3299, 3300, 3301, 3600}

\* ------------------------------------------------- values of the environment
Undefined == "undefined"

EnvAccessTokens  == {Undefined, "A0"}   \* TICKTICK_ACCESS_TOKEN
EnvRefreshTokens == {Undefined, "R0"}   \* TICKTICK_REFRESH_TOKEN

Has(r, f) == f \in DOMAIN r

Max(a, b) == IF a >= b THEN a ELSE b

\* TokenResponse: access_token, and optionally expires_in and refresh_token.
\* What the token endpoint may answer to a refresh or to a code exchange:
\* with or without rotation of the refresh token.
TokenResponses ==
  { [access_token |-> "A1", expires_in |-> 3600],
    [access_token |-> "A2", expires_in |-> 120, refresh_token |-> "R1"] }

\* expires_in as the server may declare it, and the responses that carry
\* each of them (and the one that carries none)
ExpiresInValues == {0, 30, 120, 3600}

LifetimeResponses ==
  [access_token : {"A1"}] \cup [access_token : {"A1"}, expires_in : ExpiresInValues]

\* ------------------------------------------------------------------ errors
TickTickError(message, code, statusCode, details) ==
  [message |-> message, code |-> code, statusCode |-> statusCode, details |-> details]

AuthenticationError(message, details) ==
  TickTickError(message, "AUTHENTICATION_ERROR", 401, details)

AuthorizationError(message, details) ==
  TickTickError(message, "AUTHORIZATION_ERROR", 403, details)

NotFoundError(message, details) ==
  TickTickError(message, "NOT_FOUND", 404, details)

ValidationError(message, details) ==
  TickTickError(message, "VALIDATION_ERROR", 400, details)

RateLimitError(message, retryAfter) ==
  TickTickError(message, "RATE_LIMIT_ERROR", 429, retryAfter)

ApiClientError(message, statusCode, details) ==
  TickTickError(message, "API_CLIENT_ERROR", statusCode, details)

TokenRefreshError(message, details) ==
  TickTickError(message, "TOKEN_REFRESH_ERROR", 401, details)

\* An AxiosError is [message] when no response arrived and
\* [message, response |-> [status, retryAfter]] otherwise.  statusCode of a
\* network error is undefined in the source: 0 stands for it.
handleAxiosError(error) ==
  IF ~Has(error, "response")
  THEN TickTickError("Network error occurred while connecting to TickTick API",
                     "NETWORK_ERROR", 0, error.message)
  ELSE LET status == error.response.status
           message == error.message
       IN CASE status = 401 -> AuthenticationError(message, "data")
            [] status = 403 -> AuthorizationError(message, "data")
            [] status = 404 -> NotFoundError(message, "data")
            [] status = 429 -> RateLimitError(message, error.response.retryAfter)
            [] status = 400 -> ValidationError(message, "data")
            [] OTHER        -> ApiClientError(message, status, "data")

\* The message a tool shows its user for an error.  Every error of the model
\* that carries a code is a TickTickError; the text that is built from the
\* error's own message is the pair of the fixed text and that message.
createUserFriendlyError(error) ==
  IF Has(error, "code")
  THEN CASE error.code = "AUTHENTICATION_ERROR" ->
              "Authentication failed. Please check your TickTick credentials and try again."
         [] error.code = "AUTHORIZATION_ERROR" ->
              "You do not have permission to perform this action in TickTick."
         [] error.code = "NOT_FOUND" ->
              "The requested item was not found in TickTick. It may have been deleted or you may not have access to it."
         [] error.code = "VALIDATION_ERROR" -> <<"Invalid input: ", error.message>>
         [] error.code = "RATE_LIMIT_ERROR" ->
              "Too many requests to TickTick. Please wait a moment and try again."
         [] error.code = "NETWORK_ERROR" ->
              "Unable to connect to TickTick. Please check your internet connection and try again."
         [] error.code = "TOKEN_REFRESH_ERROR" ->
              "Failed to refresh authentication token. Please re-authenticate with TickTick."
         [] OTHER -> error.message
  ELSE <<"An error occurred: ", error.message>>

\* ------------------------------------------------------------ the node-cache
\* The cache maps a key to [v, t]: the value and the instant it expires at.
EmptyCache == [k \in {} |-> [v |-> Undefined, t |-> 0]]

CacheSet(ch, key, value, ttl, time) ==
  [k \in DOMAIN ch \cup {key} |->
     IF k = key THEN [v |-> value, t |-> time + ttl] ELSE ch[k]]

CacheDel(ch, keys) == [k \in DOMAIN ch \ keys |-> ch[k]]

\* an entry is expired once the clock has passed t
CacheLive(ch, key, time) == key \in DOMAIN ch /\ ~(ch[key].t < time)

CacheGet(ch, key, time) == IF CacheLive(ch, key, time) THEN ch[key].v ELSE Undefined

\* get() evicts the entry it finds expired
CacheAfterGet(ch, key, time) ==
  IF key \in DOMAIN ch /\ ~CacheLive(ch, key, time) THEN CacheDel(ch, {key}) ELSE ch

\* a JavaScript string is truthy unless it is undefined or empty
Truthy(s) == s # Undefined /\ s # ""

\* --------------------------------------------------------------- variables
VARIABLES
  phase,           \* "constructed" until initializeFromEnv has run, then "running"
  now,             \* the clock, in seconds
  ticks,           \* clock advances so far
  cache,           \* TokenManager.cache
  refreshPromise,  \* TokenManager.refreshPromise: 0 for null, else a promise id
  promises,        \* the promises returned by refreshAccessToken
  reactions,       \* per promise, the callers suspended on it, in order
  jobs,            \* the microtask queue: callers whose await is to resume
  pc,              \* per caller, where its getValidAccessToken call stands
  result,          \* per caller, what its call returned or threw
  sharedOp,        \* per caller, the promise its call awaited (0: none)
  lastSet,         \* history: the last setTokens not followed by clearTokens
  lastRotation,    \* history: the last stored response that carried a refresh_token
  ms,              \* the clock's milliseconds past the second `now`
  queueTail,       \* TickTickApiClient.requestQueue: when its last delay ends (ms)
  requests,        \* per API client operation, where its request stands
  dispatches,      \* history: the requests sent to the upstream API
  invocations,     \* per executeTool call, where it stands
  toolCall,        \* history: the latest handler call, the answers it got, its outcome
  items,           \* upstream: the checklist items of the task the batches extend
  batches,         \* per invocation, where its batch_create_subtasks stands
  http             \* history: the latest HTTP request and what the server did with it

\* the API client's and the tool layer's state, which TokenManager never touches
clientVars == <<ms, queueTail, requests, dispatches>>
toolVars   == <<invocations, toolCall, items, batches, http>>


vars == <<phase, now, ticks, cache, refreshPromise, promises, reactions, jobs,
          pc, result, sharedOp, lastSet, lastRotation,
          ms, queueTail, requests, dispatches, invocations,
          toolCall, items, batches, http>>

NoResult     == [kind |-> "none"]
Returned(v)  == [kind |-> "value", value |-> v]
Threw(e)     == [kind |-> "error", error |-> e]

NeverSet == [at |-> -1]

\* the rotation on record once a token response has been stored
Rotation(previous, tokens, time) ==
  IF Has(tokens, "refresh_token") /\ Truthy(tokens.refresh_token)
  THEN [at |-> time, refresh_token |-> tokens.refresh_token]
  ELSE previous

Suspended == {"await_shared", "await_refresh"}

tokenVars == <<phase, now, ticks, cache, refreshPromise, promises, reactions, jobs,
               pc, result, sharedOp, lastSet, lastRotation>>

\* a request before its operation is called, and an invocation before
\* executeTool is called
NoRequest    == [state |-> "idle"]
NoInvocation == [state |-> "idle"]

\* ------------------------------------------------------------ TokenManager
\* the five-minute margin is not subtracted
MutSetTokensNoMargin(ch, tokens, time) ==
  LET expiresIn == IF Has(tokens, "expires_in") /\ tokens.expires_in # 0
                   THEN tokens.expires_in ELSE 3600
      ttl == Max(expiresIn, 60)
      c1  == CacheSet(ch, "access_token", tokens.access_token, ttl, time)
  IN IF Has(tokens, "refresh_token") /\ Truthy(tokens.refresh_token)
     THEN CacheSet(c1, "refresh_token", tokens.refresh_token, 30 * 24 * 60 * 60, time)
     ELSE c1

\* a response without a refresh token renews the expiry of the stored one
MutSetTokensRenewsAlways(ch, tokens, time) ==
  LET expiresIn == IF Has(tokens, "expires_in") /\ tokens.expires_in # 0
                   THEN tokens.expires_in ELSE 3600
      ttl == Max(expiresIn - 300, 60)
      c1  == CacheSet(ch, "access_token", tokens.access_token, ttl, time)
  IN IF Has(tokens, "refresh_token") /\ Truthy(tokens.refresh_token)
     THEN CacheSet(c1, "refresh_token", tokens.refresh_token, 30 * 24 * 60 * 60, time)
     ELSE IF CacheLive(c1, "refresh_token", time)
     THEN CacheSet(c1, "refresh_token", c1["refresh_token"].v, 30 * 24 * 60 * 60, time)
     ELSE c1

\* a refresh token carried by the response is not stored
MutSetTokensNoRotation(ch, tokens, time) ==
  LET expiresIn == IF Has(tokens, "expires_in") /\ tokens.expires_in # 0
                   THEN tokens.expires_in ELSE 3600
      ttl == Max(expiresIn - 300, 60)
  IN CacheSet(ch, "access_token", tokens.access_token, ttl, time)

\* setTokens: the cache after storing a token response at the given instant
setTokens(ch, tokens, time) ==
  LET expiresIn == IF Has(tokens, "expires_in") /\ tokens.expires_in # 0
                   THEN tokens.expires_in ELSE 3600
      ttl == Max(expiresIn - 300, 60)
      c1  == CacheSet(ch, "access_token", tokens.access_token, ttl, time)
  IN IF Has(tokens, "refresh_token") /\ Truthy(tokens.refresh_token)
     THEN CacheSet(c1, "refresh_token", tokens.refresh_token, 30 * 24 * 60 * 60, time)
     ELSE c1

getAccessToken  == CacheGet(cache, "access_token", now)
getRefreshToken == CacheGet(cache, "refresh_token", now)
isAccessTokenValid == CacheLive(cache, "access_token", now)

Init ==
  /\ phase = "constructed"
  /\ now = 0
  /\ ticks = 0
  /\ cache = EmptyCache
  /\ refreshPromise = 0
  /\ promises = [p \in PromiseIds |-> [state |-> "unused"]]
  /\ reactions = [p \in PromiseIds |-> <<>>]
  /\ jobs = <<>>
  /\ pc = [c \in Callers |-> "idle"]
  /\ result = [c \in Callers |-> NoResult]
  /\ sharedOp = [c \in Callers |-> 0]
  /\ lastSet = NeverSet
  /\ lastRotation = NeverSet
  /\ ms = 0
  /\ queueTail = 0
  /\ requests = [k \in Requests |-> NoRequest]
  /\ dispatches = {}
  /\ invocations = [i \in Invocations |-> NoInvocation]
  /\ toolCall = NoInvocation
  /\ items = <<[id |-> "i1", title |-> "milk", sortOrder |-> 100]>>
  /\ batches = [i \in Invocations |-> NoInvocation]
  /\ http = NoRequest

\* initializeFromEnv, run once when the process starts
InitializeFromEnv(accessToken, refreshToken) ==
  /\ phase = "constructed"
  /\ phase' = "running"
  /\ IF Truthy(accessToken)
     THEN LET tokens == IF refreshToken = Undefined
                        THEN [access_token |-> accessToken, expires_in |-> 3600]
                        ELSE [access_token |-> accessToken, expires_in |-> 3600,
                              refresh_token |-> refreshToken]
          IN /\ cache' = setTokens(cache, tokens, now)
             /\ lastSet' = [at |-> now, tokens |-> tokens]
             /\ lastRotation' = Rotation(lastRotation, tokens, now)
     ELSE UNCHANGED <<cache, lastSet, lastRotation>>
  /\ UNCHANGED <<now, ticks, refreshPromise, promises, reactions, jobs,
                 pc, result, sharedOp>>

\* the event loop takes up outside work only when no microtask is queued
Quiescent == phase = "running" /\ jobs = <<>>

\* ------------------------------------------------- getValidAccessToken
\* the in-flight handle is not consulted
MutDecisionNoJoin(ch, handle, time) ==
  IF Truthy(CacheGet(ch, "access_token", time)) THEN "return_cached"
  ELSE IF ~Truthy(CacheGet(CacheAfterGet(ch, "access_token", time), "refresh_token", time))
       THEN "throw_unavailable"
  ELSE "start_refresh"

\* the refresh token is not checked before refreshing
MutDecisionNoTokenCheck(ch, handle, time) ==
  IF Truthy(CacheGet(ch, "access_token", time)) THEN "return_cached"
  ELSE IF handle # 0 THEN "await_shared"
  ELSE "start_refresh"

\* the refresh token is checked before the in-flight handle
MutDecisionTokenFirst(ch, handle, time) ==
  IF Truthy(CacheGet(ch, "access_token", time)) THEN "return_cached"
  ELSE IF ~Truthy(CacheGet(CacheAfterGet(ch, "access_token", time), "refresh_token", time))
       THEN "throw_unavailable"
  ELSE IF handle # 0 THEN "await_shared"
  ELSE "start_refresh"

\* the cached access token is not consulted
MutDecisionNoCache(ch, handle, time) ==
  IF handle # 0 THEN "await_shared"
  ELSE IF ~Truthy(CacheGet(CacheAfterGet(ch, "access_token", time), "refresh_token", time))
       THEN "throw_unavailable"
  ELSE "start_refresh"

\* The branch a call takes, decided without suspending: the cached access
\* token, then the in-flight handle, then the refresh token.
Decision(ch, handle, time) ==
  IF Truthy(CacheGet(ch, "access_token", time)) THEN "return_cached"
  ELSE IF handle # 0 THEN "await_shared"
  ELSE IF ~Truthy(CacheGet(CacheAfterGet(ch, "access_token", time), "refresh_token", time))
       THEN "throw_unavailable"
  ELSE "start_refresh"

\* the cache once the lookups of a call have evicted what they found expired
CacheAfterDecision(ch, handle, time) ==
  LET c1 == CacheAfterGet(ch, "access_token", time)
  IN IF Decision(ch, handle, time) \in {"return_cached", "await_shared"}
     THEN c1
     ELSE CacheAfterGet(c1, "refresh_token", time)

\* a call may start while continuations are still queued
MutCanCallAnytime(c) == phase = "running" /\ pc[c] = "idle"

CanCall(c) == Quiescent /\ pc[c] = "idle"

\* step 1: a live access token is returned at once
CallReturnCached(c) ==
  /\ CanCall(c)
  /\ Decision(cache, refreshPromise, now) = "return_cached"
  /\ pc' = [pc EXCEPT ![c] = "done"]
  /\ result' = [result EXCEPT ![c] = Returned(getAccessToken)]
  /\ sharedOp' = [sharedOp EXCEPT ![c] = 0]
  /\ cache' = CacheAfterDecision(cache, refreshPromise, now)
  /\ UNCHANGED <<phase, now, ticks, refreshPromise, promises, reactions, jobs,
                 lastSet, lastRotation>>

\* step 2: a refresh is in flight, the call suspends on the shared promise
CallAwaitShared(c) ==
  /\ CanCall(c)
  /\ Decision(cache, refreshPromise, now) = "await_shared"
  /\ pc' = [pc EXCEPT ![c] = "await_shared"]
  /\ result' = [result EXCEPT ![c] = NoResult]
  /\ sharedOp' = [sharedOp EXCEPT ![c] = refreshPromise]
  /\ IF promises[refreshPromise].state = "pending"
     THEN /\ reactions' = [reactions EXCEPT ![refreshPromise] = Append(@, c)]
          /\ UNCHANGED jobs
     ELSE \* awaiting a settled promise resumes in the next microtask
          /\ jobs' = Append(jobs, c)
          /\ UNCHANGED reactions
  /\ cache' = CacheAfterDecision(cache, refreshPromise, now)
  /\ UNCHANGED <<phase, now, ticks, refreshPromise, promises, lastSet, lastRotation>>

NoRefreshTokenError ==
  TokenRefreshError("No refresh token available. Please re-authenticate with TickTick.",
                    Undefined)

\* step 3: no refresh token, the call throws
CallThrowUnavailable(c) ==
  /\ CanCall(c)
  /\ Decision(cache, refreshPromise, now) = "throw_unavailable"
  /\ pc' = [pc EXCEPT ![c] = "done"]
  /\ result' = [result EXCEPT ![c] = Threw(NoRefreshTokenError)]
  /\ sharedOp' = [sharedOp EXCEPT ![c] = 0]
  /\ cache' = CacheAfterDecision(cache, refreshPromise, now)
  /\ UNCHANGED <<phase, now, ticks, refreshPromise, promises, reactions, jobs,
                 lastSet, lastRotation>>

\* the promise of the new refresh is not recorded
MutStartedHandleDropped(c) == 0

\* the handle once the promise of a new refresh is recorded
StartedHandle(c) == c

\* step 4: refreshAccessToken is called, its promise becomes the handle and
\* the call suspends on it
CallStartRefresh(c) ==
  /\ CanCall(c)
  /\ Decision(cache, refreshPromise, now) = "start_refresh"
  /\ promises' = [promises EXCEPT ![c] =
                     [state |-> "pending", refresh_token |-> getRefreshToken]]
  /\ refreshPromise' = StartedHandle(c)
  /\ reactions' = [reactions EXCEPT ![c] = <<c>>]
  /\ sharedOp' = [sharedOp EXCEPT ![c] = c]
  /\ pc' = [pc EXCEPT ![c] = "await_refresh"]
  /\ result' = [result EXCEPT ![c] = NoResult]
  /\ cache' = CacheAfterDecision(cache, refreshPromise, now)
  /\ UNCHANGED <<phase, now, ticks, jobs, lastSet, lastRotation>>

\* ------------------------------------------------------ refreshAccessToken
\* what refreshAccessToken throws for a failure of its POST
refreshAccessTokenError(error) ==
  IF Has(error, "isAxiosError")
  THEN handleAxiosError(error)
  ELSE AuthenticationError("Failed to refresh access token", error.message)

RefreshFailures ==
  { [message |-> "timeout", isAxiosError |-> TRUE],
    [message |-> "Request failed", isAxiosError |-> TRUE,
     response |-> [status |-> 401, retryAfter |-> Undefined]] }

\* the token endpoint answers: the promise is fulfilled with the response data
RefreshSucceeds(p, tokens) ==
  /\ Quiescent
  /\ promises[p].state = "pending"
  /\ promises' = [promises EXCEPT ![p] = [state |-> "fulfilled", value |-> tokens]]
  /\ jobs' = reactions[p]
  /\ reactions' = [reactions EXCEPT ![p] = <<>>]
  /\ UNCHANGED <<phase, now, ticks, cache, refreshPromise, pc, result,
                 sharedOp, lastSet, lastRotation>>

\* the POST fails: the promise is rejected with what refreshAccessToken throws
RefreshFails(p, error) ==
  /\ Quiescent
  /\ promises[p].state = "pending"
  /\ promises' = [promises EXCEPT ![p] =
                    [state |-> "rejected", reason |-> refreshAccessTokenError(error)]]
  /\ jobs' = reactions[p]
  /\ reactions' = [reactions EXCEPT ![p] = <<>>]
  /\ UNCHANGED <<phase, now, ticks, cache, refreshPromise, pc, result,
                 sharedOp, lastSet, lastRotation>>

\* ---------------------------------------------- resuming suspended calls
\* what the call that started the refresh returns or throws
InitiatorResult(promise) ==
  IF promise.state = "fulfilled"
  THEN Returned(promise.value.access_token)
  ELSE Threw(TokenRefreshError(
         "Failed to refresh access token. Please re-authenticate with TickTick.",
         promise.reason))

\* the handle is cleared on the success path only (no finally)
MutInitiatorHandleSuccessOnly(promise, handle) ==
  IF promise.state = "fulfilled" THEN 0 ELSE handle

\* the handle is cleared on the failure path only (in catch, no finally)
MutInitiatorHandleFailureOnly(promise, handle) ==
  IF promise.state = "rejected" THEN 0 ELSE handle

\* the handle after the initiator's finally block
InitiatorHandle(promise, handle) == 0

\* what a call that awaited the shared promise returns or throws
WaiterResult(promise) ==
  IF promise.state = "fulfilled"
  THEN Returned(promise.value.access_token)
  ELSE Threw(promise.reason)

\* the handle after the waiter's try/catch
WaiterHandle(promise, handle) ==
  IF promise.state = "rejected" THEN 0 ELSE handle

\* the initiator resumes after `await this.refreshPromise` (try/catch/finally)
ResumeInitiator ==
  /\ jobs # <<>>
  /\ LET c == Head(jobs)
         promise == promises[sharedOp[c]]
     IN /\ pc[c] = "await_refresh"
        /\ IF promise.state = "fulfilled"
           THEN /\ cache' = setTokens(cache, promise.value, now)
                /\ lastSet' = [at |-> now, tokens |-> promise.value]
                /\ lastRotation' = Rotation(lastRotation, promise.value, now)
           ELSE UNCHANGED <<cache, lastSet, lastRotation>>
        /\ result' = [result EXCEPT ![c] = InitiatorResult(promise)]
        /\ refreshPromise' = InitiatorHandle(promise, refreshPromise)
        /\ pc' = [pc EXCEPT ![c] = "done"]
  /\ jobs' = Tail(jobs)
  /\ UNCHANGED <<phase, now, ticks, promises, reactions, sharedOp>>

\* a waiter resumes after `await this.refreshPromise` (try/catch)
ResumeWaiter ==
  /\ jobs # <<>>
  /\ LET c == Head(jobs)
         promise == promises[sharedOp[c]]
     IN /\ pc[c] = "await_shared"
        /\ result' = [result EXCEPT ![c] = WaiterResult(promise)]
        /\ refreshPromise' = WaiterHandle(promise, refreshPromise)
        /\ pc' = [pc EXCEPT ![c] = "done"]
  /\ jobs' = Tail(jobs)
  /\ UNCHANGED <<phase, now, ticks, cache, promises, reactions, sharedOp,
                 lastSet, lastRotation>>

\* ------------------------------------------------ the other entry points
\* GET /oauth/callback: the authorization code is exchanged and the response
\* is stored
OAuthCallback(tokens) ==
  /\ phase = "running"
  /\ jobs = <<>>
  /\ cache' = setTokens(cache, tokens, now)
  /\ lastSet' = [at |-> now, tokens |-> tokens]
  /\ lastRotation' = Rotation(lastRotation, tokens, now)
  /\ UNCHANGED <<phase, now, ticks, refreshPromise, promises, reactions, jobs,
                 pc, result, sharedOp>>

\* only the access token is deleted
MutClearTokensAccessOnly ==
  /\ Quiescent
  /\ cache' = CacheDel(cache, {"access_token"})
  /\ lastSet' = NeverSet
  /\ lastRotation' = NeverSet
  /\ UNCHANGED <<phase, now, ticks, refreshPromise, promises, reactions, jobs,
                 pc, result, sharedOp>>

\* clearTokens: both keys are deleted from the cache
clearTokens ==
  /\ Quiescent
  /\ cache' = CacheDel(cache, {"access_token", "refresh_token"})
  /\ lastSet' = NeverSet
  /\ lastRotation' = NeverSet
  /\ UNCHANGED <<phase, now, ticks, refreshPromise, promises, reactions, jobs,
                 pc, result, sharedOp>>

\* time passes
Advance(d) ==
  /\ Quiescent
  /\ ticks < MaxTicks
  /\ now' = now + d
  /\ ticks' = ticks + 1
  /\ UNCHANGED <<phase, cache, refreshPromise, promises, reactions, jobs,
                 pc, result, sharedOp, lastSet, lastRotation>>

\* ------------------------------------------------------ TickTickApiClient
\* the clock in milliseconds
Clock == now * 1000 + ms

\* What axios reports for a request sent to the upstream API: a response
\* with status 200, or an AxiosError: with a 429 response (with or without a
\* retry-after header, a string of seconds), with a 404 response, or with no
\* response.
ApiAnswers ==
  { [status |-> 200],
    [message |-> "Request failed with status code 429",
     response |-> [status |-> 429, retryAfter |-> Undefined]],
    [message |-> "Request failed with status code 429",
     response |-> [status |-> 429, retryAfter |-> "1"]],
    [message |-> "Request failed with status code 404",
     response |-> [status |-> 404, retryAfter |-> Undefined]],
    [message |-> "timeout of 30000ms exceeded"] }

\* the requests whose setTimeout is pending: the queue's delay, or the wait
\* after a 429
Timers == {k \in Requests : requests[k].state \in {"queued", "backoff"}}

\* the requests whose interceptor is to resume: its token call has completed
Continuations ==
  {k \in Requests : requests[k].state = "token" /\ pc[requests[k].attempt] = "done"}

\* the event loop takes up outside work only when nothing is left to resume
ClientQuiescent == Quiescent /\ Continuations = {}

\* between operations: the tokens' lifetimes pass while the client is at rest
NoRequestInProgress == \A k \in Requests : requests[k].state \in {"idle", "done"}

\* the token responses of the client specification: the client does not
\* look into a response, so those without rotation stand for all
ClientTokenResponses == {tokens \in TokenResponses : ~Has(tokens, "refresh_token")}

\* queueRequest, up to `await this.requestQueue`: a 100 ms delay is chained
\* to the queue and the request waits for it
QueueRequest(k) ==
  /\ ClientQuiescent
  /\ requests[k].state = "idle"
  /\ \A j \in Requests : j < k => requests[j].state # "idle"
  /\ queueTail' = Max(Clock, queueTail) + 100
  /\ requests' = [requests EXCEPT ![k] = [state |-> "queued", timer |-> queueTail']]
  /\ UNCHANGED <<tokenVars, ms, dispatches, toolVars>>

\* The request function runs when the delay ends, or client.request runs
\* again when the wait after a 429 ends: the request interceptor calls
\* getValidAccessToken.  This is the client's half of that step, call c of
\* getValidAccessToken is the other half.
BeginAttempt(k, c) ==
  /\ Continuations = {}
  /\ k \in Timers
  /\ requests[k].timer <= Clock
  /\ \A d \in Callers : d < c => pc[d] # "idle"
  /\ requests' = [requests EXCEPT ![k] = [state |-> "token", attempt |-> c]]
  /\ UNCHANGED <<ms, queueTail, dispatches, toolVars>>

Bearer(token) == [scheme |-> "Bearer", token |-> token]

\* the request is sent whether or not the token call returned a token
MutDispatchedWithoutToken(k, c, res, clock) ==
  {[request |-> k, attempt |-> c, at |-> clock,
    authorization |-> Bearer(IF res.kind = "value" THEN res.value ELSE Undefined)]}

\* what axios sends once the request interceptor has run: the request with
\* the token as its Bearer credential, or nothing when the interceptor threw
Dispatched(k, c, res, clock) ==
  IF res.kind = "value"
  THEN {[request |-> k, attempt |-> c, at |-> clock, authorization |-> Bearer(res.value)]}
  ELSE {}

\* the number a header's string stands for, as the multiplication takes it
Number(header) == CASE header = "0" -> 0 [] header = "1" -> 1 [] header = "2" -> 2

\* seconds to wait after a 429: the retry-after header, or 60
RetryAfter(error) ==
  IF Truthy(error.response.retryAfter) THEN Number(error.response.retryAfter) ELSE 60

\* The response interceptor's error handler: where the request stands after
\* it.  It is given every rejection of the chain: an AxiosError of the
\* request sent, or what the request interceptor threw.
ResponseError(error, c, clock) ==
  IF Has(error, "response") /\ error.response.status = 429
  THEN [state |-> "backoff", attempt |-> c, timer |-> clock + RetryAfter(error) * 1000]
  ELSE [state |-> "done", attempt |-> c, outcome |-> Threw(handleAxiosError(error))]

\* the request interceptor resumes after `await getValidAccessToken`: with a
\* token the request is sent; what it throws goes to the response
\* interceptor's error handler
InterceptorResumes(k) ==
  /\ k \in Continuations
  /\ LET c == requests[k].attempt
         sent == Dispatched(k, c, result[c], Clock)
     IN /\ dispatches' = dispatches \cup sent
        /\ requests' = [requests EXCEPT ![k] =
                          IF sent # {}
                          THEN [state |-> "sent", attempt |-> c]
                          ELSE ResponseError(result[c].error, c, Clock)]
  /\ UNCHANGED <<tokenVars, ms, queueTail, toolVars>>

\* the upstream API answers, or the request fails without an answer
Respond(k, answer) ==
  /\ ClientQuiescent
  /\ requests[k].state = "sent"
  /\ requests' = [requests EXCEPT ![k] =
                    IF Has(answer, "status")
                    THEN [state |-> "done", attempt |-> @.attempt, outcome |-> Returned("data")]
                    ELSE ResponseError(answer, @.attempt, Clock)]
  /\ UNCHANGED <<tokenVars, ms, queueTail, dispatches, toolVars>>

Min(S) == CHOOSE x \in S : \A y \in S : x <= y

\* time passes until the next pending timer is due
TimePasses ==
  /\ ClientQuiescent
  /\ Timers # {}
  /\ LET due == Min({requests[k].timer : k \in Timers})
     IN /\ due > Clock
        /\ now' = due \div 1000
        /\ ms' = due % 1000
  /\ UNCHANGED <<phase, ticks, cache, refreshPromise, promises, reactions, jobs,
                 pc, result, sharedOp, lastSet, lastRotation,
                 queueTail, requests, dispatches, toolVars>>

\* ---------------------------------------------------------- the tool layer
\* the names registered in toolHandlers
ToolNames ==
  { "create_task", "create_task_with_subtasks", "update_task", "complete_task",
    "delete_task", "get_task", "search_tasks", "get_todays_tasks",
    "get_upcoming_tasks", "batch_create_subtasks",
    "get_all_projects", "get_project_with_tasks", "create_project",
    "update_project", "delete_project" }

\* names every JavaScript object answers to, toolHandlers included, because
\* it inherits them from Object.prototype
InheritedNames == {"toString", "constructor", "__proto__"}

\* the names executeTool is called with: the path parameter of POST
\* /tools/:toolName and params.name of a tools/call are not checked before
CalledNames == ToolNames \cup InheritedNames \cup {"no_such_tool"}

\* toolHandlers[toolName]: the handler registered under the name, what the
\* object inherits under it, or undefined
toolHandlers(toolName) ==
  CASE toolName = "create_task"               -> "handleCreateTask"
    [] toolName = "create_task_with_subtasks" -> "handleCreateTaskWithSubtasks"
    [] toolName = "update_task"               -> "handleUpdateTask"
    [] toolName = "complete_task"             -> "handleCompleteTask"
    [] toolName = "delete_task"               -> "handleDeleteTask"
    [] toolName = "get_task"                  -> "handleGetTask"
    [] toolName = "search_tasks"              -> "handleSearchTasks"
    [] toolName = "get_todays_tasks"          -> "handleGetTodaysTasks"
    [] toolName = "get_upcoming_tasks"        -> "handleGetUpcomingTasks"
    [] toolName = "batch_create_subtasks"     -> "handleBatchCreateSubtasks"
    [] toolName = "get_all_projects"          -> "handleGetAllProjects"
    [] toolName = "get_project_with_tasks"    -> "handleGetProjectWithTasks"
    [] toolName = "create_project"            -> "handleCreateProject"
    [] toolName = "update_project"            -> "handleUpdateProject"
    [] toolName = "delete_project"            -> "handleDeleteProject"
    [] toolName = "toString"                  -> "Object.prototype.toString"
    [] toolName = "constructor"               -> "Object"
    [] toolName = "__proto__"                 -> "Object.prototype"
    [] OTHER                                  -> Undefined

\* An input is the set of the fields it carries, each with a value of the
\* right type: none, the fields the published schemas require, and those
\* with an id besides.
PublishedFields == {"title", "projectId", "taskId", "query", "name", "subtasks"}

ToolInputs == {{}, PublishedFields, PublishedFields \cup {"id"}}

\* the fields the schema a handler validates against requires
RequiredFields(handler) ==
  CASE handler \in {"handleCreateTask", "handleCreateTaskWithSubtasks"} -> {"title"}
    [] handler = "handleUpdateTask" -> {"id", "projectId"}
    [] handler \in {"handleCompleteTask", "handleDeleteTask", "handleGetTask"} ->
         {"projectId", "taskId"}
    [] handler = "handleSearchTasks" -> {"query"}
    [] handler = "handleBatchCreateSubtasks" -> {"taskId", "projectId", "subtasks"}
    [] handler \in {"handleGetProjectWithTasks", "handleUpdateProject",
                    "handleDeleteProject"} -> {"projectId"}
    [] handler = "handleCreateProject" -> {"name"}
    [] OTHER -> {}

\* validateInput passes
Validates(handler, input) == RequiredFields(handler) \subseteq input

\* complete_task fetches the task before completing it
MutOperationsCompleteFetches(handler) ==
  CASE handler \in {"handleCreateTask", "handleCreateTaskWithSubtasks"} -> <<"createTask">>
    [] handler = "handleUpdateTask"          -> <<"updateTask">>
    [] handler = "handleCompleteTask"        -> <<"getTask", "completeTask">>
    [] handler = "handleDeleteTask"          -> <<"deleteTask">>
    [] handler = "handleGetTask"             -> <<"getTask">>
    [] handler = "handleSearchTasks"         -> <<"searchTasks">>
    [] handler = "handleGetTodaysTasks"      -> <<"getTodaysTasks">>
    [] handler = "handleGetUpcomingTasks"    -> <<"getUpcomingTasks">>
    [] handler = "handleBatchCreateSubtasks" -> <<"getTask", "updateTask">>
    [] handler = "handleGetAllProjects"      -> <<"getAllProjects">>
    [] handler = "handleGetProjectWithTasks" -> <<"getProjectWithTasks">>
    [] handler = "handleCreateProject"       -> <<"createProject">>
    [] handler = "handleUpdateProject"       -> <<"updateProject">>
    [] handler = "handleDeleteProject"       -> <<"deleteProject">>

\* the API client operations a handler calls on validated input, in order,
\* each awaited before the next
Operations(handler) ==
  CASE handler \in {"handleCreateTask", "handleCreateTaskWithSubtasks"} -> <<"createTask">>
    [] handler = "handleUpdateTask"          -> <<"updateTask">>
    [] handler = "handleCompleteTask"        -> <<"completeTask">>
    [] handler = "handleDeleteTask"          -> <<"deleteTask">>
    [] handler = "handleGetTask"             -> <<"getTask">>
    [] handler = "handleSearchTasks"         -> <<"searchTasks">>
    [] handler = "handleGetTodaysTasks"      -> <<"getTodaysTasks">>
    [] handler = "handleGetUpcomingTasks"    -> <<"getUpcomingTasks">>
    [] handler = "handleBatchCreateSubtasks" -> <<"getTask", "updateTask">>
    [] handler = "handleGetAllProjects"      -> <<"getAllProjects">>
    [] handler = "handleGetProjectWithTasks" -> <<"getProjectWithTasks">>
    [] handler = "handleCreateProject"       -> <<"createProject">>
    [] handler = "handleUpdateProject"       -> <<"updateProject">>
    [] handler = "handleDeleteProject"       -> <<"deleteProject">>

\* new Error(message); a message built from parts is the tuple of its parts
Error(message) == [message |-> message]

UnknownToolError(toolName) == Error(<<"Unknown tool: ", toolName>>)

\* the errors an API client operation rejects with: what handleAxiosError
\* makes of an answer that is neither a success nor a 429
ApiErrors ==
  {handleAxiosError(a) :
     a \in {x \in ApiAnswers :
              /\ ~Has(x, "status")
              /\ ~(Has(x, "response") /\ x.response.status = 429)}}

\* executeTool, and the handler it finds, up to the handler's first await:
\* where the invocation stands then.  `ran` is the function run as handler;
\* a returned value is the set of what it holds.
Executed(toolName, input) ==
  LET handler == toolHandlers(toolName)
  IN IF ~Truthy(handler)
     THEN [state |-> "done", name |-> toolName, ran |-> Undefined, valid |-> FALSE,
           called |-> <<>>, outcome |-> Threw(UnknownToolError(toolName))]
     ELSE IF toolName \in InheritedNames
     THEN [state |-> "done", name |-> toolName, ran |-> handler, valid |-> FALSE,
           called |-> <<>>,
           outcome |-> CASE handler = "Object.prototype.toString" ->
                              Returned({"[object Undefined]"})
                         [] handler = "Object" -> Returned(input)
                         [] OTHER -> Threw(Error(<<"handler is not a function">>))]
     ELSE IF ~Validates(handler, input)
     THEN [state |-> "done", name |-> toolName, ran |-> handler, valid |-> FALSE,
           called |-> <<>>,
           outcome |-> Threw(Error(createUserFriendlyError(
                         ValidationError("Invalid input: Required", "errors"))))]
     ELSE [state |-> "awaiting", name |-> toolName, ran |-> handler, valid |-> TRUE,
           called |-> <<Head(Operations(handler))>>, outcome |-> NoResult]

ExecuteTool(i, toolName, input) ==
  /\ invocations[i].state = "idle"
  /\ \A j \in Invocations : j < i => invocations[j].state # "idle"
  /\ invocations' = [invocations EXCEPT ![i] = Executed(toolName, input)]
  /\ UNCHANGED <<tokenVars, clientVars, toolCall, items, batches, http>>

\* the awaited operation returns: the handler calls its next operation, or
\* returns
OperationReturns(i) ==
  /\ invocations[i].state = "awaiting"
  /\ LET v == invocations[i]
         operations == Operations(v.ran)
     IN invocations' = [invocations EXCEPT ![i] =
          IF Len(v.called) < Len(operations)
          THEN [v EXCEPT !.called = Append(@, operations[Len(v.called) + 1])]
          ELSE [v EXCEPT !.state = "done", !.outcome = Returned({"result"})]]
  /\ UNCHANGED <<tokenVars, clientVars, toolCall, items, batches, http>>

\* the awaited operation fails: the handler's catch throws an Error with the
\* user-facing message
OperationFails(i, error) ==
  /\ invocations[i].state = "awaiting"
  /\ invocations' = [invocations EXCEPT ![i] =
       [@ EXCEPT !.state = "done",
                 !.outcome = Threw(Error(createUserFriendlyError(error)))]]
  /\ UNCHANGED <<tokenVars, clientVars, toolCall, items, batches, http>>

\* ----------------------------------------------------------- the task tools
\* The objects a caller may pass as input are put together from optional
\* properties: Optional(key, values) is the objects that carry the property
\* with one of the values or not at all, With(A, B) the objects that have
\* the properties of one of A and of one of B.
Optional(key, values) ==
  {[k \in {} |-> Undefined]} \cup {[k \in {key} |-> v] : v \in values}

With(A, B) ==
  {[k \in DOMAIN a \cup DOMAIN b |-> IF Has(b, k) THEN b[k] ELSE a[k]] : a \in A, b \in B}

\* obj[key] of JavaScript: undefined when the object has no such property
Get(obj, key) == IF Has(obj, key) THEN obj[key] ELSE Undefined

\* JSON.stringify leaves out the properties whose value is undefined
JSON(obj) == [k \in {f \in DOMAIN obj : obj[f] # Undefined} |-> obj[k]]

\* what a caller may pass to update_task
UpdateTaskInputs ==
  With(With(Optional("taskId", {"t1", "t2"}), Optional("id", {"t1", "t2", ""})),
       With(Optional("projectId", {"p1"}), Optional("title", {"Pay rent"})))

\* the properties updateTaskTool.inputSchema requires; an input of the model
\* that carries them satisfies the schema (every value has the declared type)
UpdateTaskRequired == {"taskId", "projectId"}

\* the keys of UpdateTaskSchema
UpdateTaskSchemaKeys ==
  {"id", "projectId", "title", "content", "desc", "isAllDay", "startDate", "dueDate",
   "timeZone", "reminders", "repeatFlag", "priority", "sortOrder", "items"}

\* the issues zod finds for a key that must be a string of at least one
\* character
RequiredString(input, key, message) ==
  IF ~Has(input, key) THEN <<[path |-> key, message |-> "Required"]>>
  ELSE IF input[key] = "" THEN <<[path |-> key, message |-> message]>>
  ELSE <<>>

\* a zod object schema keeps the keys it knows and strips the others
Strip(input, keys) == [k \in DOMAIN input \cap keys |-> input[k]]

\* what validateInput throws for the issues found
InvalidInput(issues) == ValidationError(<<"Invalid input: ", issues>>, issues)

\* handleUpdateTask up to the request apiClient.updateTask sends: the input
\* is validated against UpdateTaskSchema, taskId is taken out of the
\* validated object and the rest, with id set to it, is the request body.
\* No input of the model gives a date, a recurrence rule or reminders:
\* parseDate, validateRRule and validateReminders return undefined for them.
handleUpdateTask(input) ==
  LET issues == RequiredString(input, "id", "Task ID is required")
                  \o RequiredString(input, "projectId", "Project ID is required")
      validated == Strip(input, UpdateTaskSchemaKeys)
      taskId == Get(validated, "taskId")
      updateData == [k \in DOMAIN validated \ {"taskId"} |-> validated[k]]
      parsed == [id |-> taskId, startDate |-> Undefined, dueDate |-> Undefined,
                 repeatFlag |-> Undefined, reminders |-> Undefined]
      taskData == [k \in DOMAIN updateData \cup DOMAIN parsed |->
                     IF Has(parsed, k) THEN parsed[k] ELSE updateData[k]]
  IN IF issues # <<>>
     THEN [requests |-> <<>>, thrown |-> InvalidInput(issues)]
     ELSE [requests |-> <<[method |-> "POST", url |-> <<"/task/", taskId>>,
                           body |-> JSON(taskData)]>>]

\* what the upstream API answers to a request of a handler: the data asked
\* for, or an error
Failure(error) == [failed |-> error]

Failed(answer) == Has(answer, "failed")

\* One handler call is followed per behaviour.
\* A handler has run: what it was called with, the answers the upstream gave,
\* the requests the handler made and what it returned or threw.  Every
\* handler catches what is thrown and throws an Error with the user-facing
\* message instead.
Handled(name, input, answers, time, handled) ==
  [state |-> "done", name |-> name, input |-> input, answers |-> answers, at |-> time,
   requests |-> handled.requests,
   outcome |-> IF Has(handled, "thrown")
               THEN Threw(Error(createUserFriendlyError(handled.thrown)))
               ELSE Returned(handled.returned)]

\* update_task is called, and the upstream answers its request
UpdateTask(input, answer) ==
  /\ toolCall.state = "idle"
  /\ LET handled == handleUpdateTask(input)
     IN toolCall' = Handled("update_task", input, answer, now,
                            IF Has(handled, "thrown") THEN handled
                            ELSE IF Failed(answer)
                            THEN [requests |-> handled.requests, thrown |-> answer.failed]
                            ELSE [requests |-> handled.requests, returned |-> answer.data])
  /\ UNCHANGED <<tokenVars, clientVars, invocations, items, batches, http>>

\* ------------------------------------------- search, today's and upcoming
\* A string that is searched in or for is the sequence of its characters.
toLowerCase(text) ==
  [i \in 1..Len(text) |->
     CASE text[i] = "A" -> "a" [] text[i] = "B" -> "b" [] OTHER -> text[i]]

\* text.includes(part)
Includes(text, part) ==
  \E i \in 0..(Len(text) - Len(part)) : SubSeq(text, i + 1, i + Len(part)) = part

\* seconds in a day
DaySeconds == 24 * 60 * 60

\* The projects of the upstream account and, per project, the tasks its
\* data holds, in the order the upstream lists them.  A due date is an
\* instant in seconds; statuses are 0 (normal) and 2 (completed); the
\* priorities are 0, 1, 3 and 5.
ProjectIds == <<"p1", "p2">>

ProjectTasks ==
  [p1 |-> << [id |-> "t3", projectId |-> "p1", title |-> <<"b">>, content |-> <<"x", "A">>,
              status |-> 0, priority |-> 3, dueDate |-> 7 * DaySeconds + 1],
             [id |-> "t2", projectId |-> "p1", title |-> <<"b", "a">>,
              status |-> 2, priority |-> 5, dueDate |-> DaySeconds],
             [id |-> "t1", projectId |-> "p1", title |-> <<"A", "b">>,
              status |-> 0, priority |-> 0, dueDate |-> 0],
             [id |-> "t8", projectId |-> "p1", title |-> <<"a">>,
              status |-> 0, priority |-> 1, dueDate |-> DaySeconds] >>,
   p2 |-> << [id |-> "t7", projectId |-> "p2", title |-> <<"a", "b">>,
              status |-> 0, priority |-> 3, dueDate |-> 30 * DaySeconds],
             [id |-> "t6", projectId |-> "p2", title |-> <<"A", "b">>,
              status |-> 0, priority |-> 1, dueDate |-> -1],
             [id |-> "t4", projectId |-> "p2", title |-> <<"a", "B">>,
              status |-> 0, priority |-> 5, dueDate |-> 7 * DaySeconds],
             [id |-> "t5", projectId |-> "p2", title |-> <<"a">>,
              status |-> 2, priority |-> 0],
             [id |-> "t9", projectId |-> "p2", title |-> <<"b", "a">>,
              status |-> 0, priority |-> 0, dueDate |-> 1000] >> ]

\* What the upstream answers to the requests of one helper call: to the
\* listing of the projects (GET /project, or GET /project/<id> when the
\* search names a project) and to GET /project/<id>/data of each project:
\* the data, the data of a project without tasks, or an error.
HelperAnswers ==
  [listing : {[data |-> "projects"]} \cup {Failure(e) : e \in ApiErrors},
   data : { d \in [{"p1", "p2"} ->
                     {[tasks |-> <<>>]} \cup {[tasks |-> ProjectTasks[p]] : p \in {"p1", "p2"}}
                       \cup {Failure(NotFoundError("Request failed with status code 404",
                                                  "data"))}] :
              \A p \in {"p1", "p2"} :
                 Failed(d[p]) \/ d[p].tasks \in {<<>>, ProjectTasks[p]} }]

\* a failing project makes the whole loop fail
RECURSIVE MutCollectAbortsOnFailure(_, _)
MutCollectAbortsOnFailure(projects, data) ==
  IF \E i \in 1..Len(projects) : Failed(data[projects[i]])
  THEN <<>>
  ELSE IF projects = <<>> THEN <<>>
  ELSE data[Head(projects)].tasks \o MutCollectAbortsOnFailure(Tail(projects), data)

\* the loop over the projects that searchTasks, getTodaysTasks and
\* getUpcomingTasks share: the tasks of each project whose data could be
\* fetched, in the order of the projects; a failure is logged and the loop
\* goes on
RECURSIVE Collect(_, _)
Collect(projects, data) ==
  IF projects = <<>> THEN <<>>
  ELSE (IF Failed(data[Head(projects)]) THEN <<>> ELSE data[Head(projects)].tasks)
         \o Collect(Tail(projects), data)

\* the requests of a helper: the listing, then the data of each project
HelperRequests(listing, projects) ==
  <<listing>> \o [i \in 1..Len(projects) |-> <<"/project/", projects[i], "/data">>]

\* TickTickApiClient.searchTasks: the named project or all of them are
\* listed, and of each project's tasks those are kept that match the query
\* in title or content, the status filter and the priority filter; a filter
\* that is not given, and a priority of 0, keeps every task
searchTasks(query, options, answers) ==
  LET projects == IF Has(options, "projectId") /\ Truthy(options.projectId)
                  THEN <<options.projectId>> ELSE ProjectIds
      listing == IF Has(options, "projectId") /\ Truthy(options.projectId)
                 THEN <<"/project/", options.projectId>> ELSE <<"/project">>
      matches(task) ==
        /\ \/ Includes(toLowerCase(task.title), toLowerCase(query))
           \/ /\ Has(task, "content")
              /\ Includes(toLowerCase(task.content), toLowerCase(query))
        /\ \/ ~Has(options, "status")
           \/ options.status = "all"
           \/ (options.status = "active" /\ task.status = 0)
           \/ (options.status = "completed" /\ task.status = 2)
        /\ \/ ~Has(options, "priority")
           \/ options.priority = 0
           \/ task.priority = options.priority
  IN IF Failed(answers.listing)
     THEN [requests |-> <<listing>>, thrown |-> answers.listing.failed]
     ELSE [requests |-> HelperRequests(listing, projects),
           returned |-> SelectSeq(Collect(projects, answers.data), matches)]

\* TickTickApiClient.getTodaysTasks: the tasks that are not completed and
\* due today, or before today when overdue tasks are asked for
getTodaysTasks(includeOverdue, answers, time) ==
  LET today == (time \div DaySeconds) * DaySeconds   \* setHours(0, 0, 0, 0)
      tomorrow == today + DaySeconds
      keeps(task) ==
        /\ task.status # 2
        /\ Has(task, "dueDate")
        /\ \/ includeOverdue /\ task.dueDate < today
           \/ task.dueDate >= today /\ task.dueDate < tomorrow
  IN IF Failed(answers.listing)
     THEN [requests |-> <<(<<"/project">>)>>, thrown |-> answers.listing.failed]
     ELSE [requests |-> HelperRequests(<<"/project">>, ProjectIds),
           returned |-> SelectSeq(Collect(ProjectIds, answers.data), keeps)]

\* Array.prototype.sort by due date: a stable sort
RECURSIVE SortByDueDate(_)
SortByDueDate(tasks) ==
  IF tasks = <<>> THEN <<>>
  ELSE LET sorted == SortByDueDate(SubSeq(tasks, 1, Len(tasks) - 1))
           last == tasks[Len(tasks)]
           before == SelectSeq(sorted, LAMBDA t : t.dueDate <= last.dueDate)
           after == SelectSeq(sorted, LAMBDA t : t.dueDate > last.dueDate)
       IN before \o <<last>> \o after

\* the tasks are returned in the order they were fetched in
MutGetUpcomingTasksUnsorted(days, answers, time) ==
  LET today == (time \div DaySeconds) * DaySeconds   \* setHours(0, 0, 0, 0)
      endDate == today + days * DaySeconds
      keeps(task) ==
        /\ task.status # 2
        /\ Has(task, "dueDate")
        /\ task.dueDate >= today /\ task.dueDate <= endDate
  IN IF Failed(answers.listing)
     THEN [requests |-> <<(<<"/project">>)>>, thrown |-> answers.listing.failed]
     ELSE [requests |-> HelperRequests(<<"/project">>, ProjectIds),
           returned |-> SelectSeq(Collect(ProjectIds, answers.data), keeps)]

\* TickTickApiClient.getUpcomingTasks: the tasks that are not completed and
\* due from midnight today to midnight `days` days on, sorted by due date
getUpcomingTasks(days, answers, time) ==
  LET today == (time \div DaySeconds) * DaySeconds   \* setHours(0, 0, 0, 0)
      endDate == today + days * DaySeconds
      keeps(task) ==
        /\ task.status # 2
        /\ Has(task, "dueDate")
        /\ task.dueDate >= today /\ task.dueDate <= endDate
  IN IF Failed(answers.listing)
     THEN [requests |-> <<(<<"/project">>)>>, thrown |-> answers.listing.failed]
     ELSE [requests |-> HelperRequests(<<"/project">>, ProjectIds),
           returned |-> SortByDueDate(SelectSeq(Collect(ProjectIds, answers.data), keeps))]

\* what a caller may pass to search_tasks, get_todays_tasks and
\* get_upcoming_tasks
SearchTasksInputs ==
  With(With(Optional("query", {<<"a">>, <<"A", "b">>}), Optional("projectId", {"p1"})),
       With(Optional("status", {"active", "completed", "all"}),
            Optional("priority", {0, 1, 3, 5})))

GetTodaysTasksInputs == Optional("includeOverdue", BOOLEAN)

GetUpcomingTasksInputs == Optional("days", {0, 1, 7, 30, 31})

\* handleSearchTasks: the input is validated against SearchTasksSchema (a
\* query is required) and the search is run with the filters given
handleSearchTasks(input, answers) ==
  LET issues == RequiredString(input, "query", "Search query is required")
      validated == Strip(input, {"query", "projectId", "status", "priority"})
  IN IF issues # <<>>
     THEN [requests |-> <<>>, thrown |-> InvalidInput(issues)]
     ELSE searchTasks(validated.query,
                      Strip(validated, {"projectId", "status", "priority"}), answers)

\* handleGetTodaysTasks: includeOverdue is false unless given
handleGetTodaysTasks(input, answers, time) ==
  getTodaysTasks(Has(input, "includeOverdue") /\ input.includeOverdue, answers, time)

\* handleGetUpcomingTasks: GetUpcomingTasksSchema takes days from 1 to 30
\* and puts 7 for days that are not given
handleGetUpcomingTasks(input, answers, time) ==
  LET issues ==
        IF ~Has(input, "days") THEN <<>>
        ELSE IF input.days < 1
        THEN <<[path |-> "days", message |-> "Number must be greater than or equal to 1"]>>
        ELSE IF input.days > 30
        THEN <<[path |-> "days", message |-> "Number must be less than or equal to 30"]>>
        ELSE <<>>
      days == IF Has(input, "days") THEN input.days ELSE 7
  IN IF issues # <<>>
     THEN [requests |-> <<>>, thrown |-> InvalidInput(issues)]
     ELSE getUpcomingTasks(days, answers, time)

SearchTasks(input, answers) ==
  /\ toolCall.state = "idle"
  /\ toolCall' = Handled("search_tasks", input, answers, now,
                         handleSearchTasks(input, answers))
  /\ UNCHANGED <<tokenVars, clientVars, invocations, items, batches, http>>

GetTodaysTasks(input, answers) ==
  /\ toolCall.state = "idle"
  /\ toolCall' = Handled("get_todays_tasks", input, answers, now,
                         handleGetTodaysTasks(input, answers, now))
  /\ UNCHANGED <<tokenVars, clientVars, invocations, items, batches, http>>

GetUpcomingTasks(input, answers) ==
  /\ toolCall.state = "idle"
  /\ toolCall' = Handled("get_upcoming_tasks", input, answers, now,
                         handleGetUpcomingTasks(input, answers, now))
  /\ UNCHANGED <<tokenVars, clientVars, invocations, items, batches, http>>

\* -------------------------------------------------- batch_create_subtasks
\* handleBatchCreateSubtasks once getTask has returned `task`: the body of
\* the update, whose items are the task's items followed by the new ones,
\* each new one ordered after the last of the task's unless it says where
BatchUpdate(input, task) ==
  LET existingItems == IF Has(task, "items") THEN task.items ELSE <<>>
      maxSortOrder ==
        LET orders == {0} \cup {existingItems[k].sortOrder :
                                  k \in {n \in 1..Len(existingItems) :
                                           Has(existingItems[n], "sortOrder")}}
        IN CHOOSE m \in orders : \A n \in orders : n <= m
      newItems ==
        [k \in 1..Len(input.subtasks) |->
           [title |-> input.subtasks[k].title,
            sortOrder |-> IF Has(input.subtasks[k], "sortOrder")
                             /\ input.subtasks[k].sortOrder # 0
                          THEN input.subtasks[k].sortOrder
                          ELSE maxSortOrder + k * 100]]
  IN [id |-> input.taskId, projectId |-> input.projectId,
      items |-> existingItems \o newItems]

\* batch_create_subtasks is called: the input is validated against
\* BatchSubtaskSchema (at least one subtask) and getTask is called
BatchCreateSubtasks(i, input) ==
  /\ batches[i].state = "idle"
  /\ \A j \in Invocations : j < i => batches[j].state # "idle"
  /\ batches' = [batches EXCEPT ![i] =
       IF Len(input.subtasks) < 1
       THEN [state |-> "done", input |-> input,
             outcome |-> Threw(Error(createUserFriendlyError(InvalidInput(
                           <<[path |-> "subtasks",
                              message |-> "At least one subtask is required"]>>))))]
       ELSE [state |-> "getTask", input |-> input, outcome |-> NoResult]]
  /\ UNCHANGED <<tokenVars, clientVars, invocations, toolCall, items, http>>

\* the upstream answers getTask with the task as it is now, and the handler
\* sends the update it makes of it
GetTaskAnswers(i) ==
  /\ batches[i].state = "getTask"
  /\ batches' = [batches EXCEPT ![i] =
       [@ EXCEPT !.state = "updateTask"] @@
       [update |-> BatchUpdate(batches[i].input,
                               [id |-> batches[i].input.taskId, items |-> items])]]
  /\ UNCHANGED <<tokenVars, clientVars, invocations, toolCall, items, http>>

\* the upstream stores the update, whose items replace the task's, and the
\* handler returns the task
UpdateTaskAnswers(i) ==
  /\ batches[i].state = "updateTask"
  /\ items' = batches[i].update.items
  /\ batches' = [batches EXCEPT ![i] =
       [@ EXCEPT !.state = "done", !.outcome = Returned(batches[i].update.items)]]
  /\ UNCHANGED <<tokenVars, clientVars, invocations, toolCall, http>>

\* getTask or updateTask fails: the handler throws the user-facing error
BatchOperationFails(i, error) ==
  /\ batches[i].state \in {"getTask", "updateTask"}
  /\ batches' = [batches EXCEPT ![i] =
       [@ EXCEPT !.state = "done",
                 !.outcome = Threw(Error(createUserFriendlyError(error)))]]
  /\ UNCHANGED <<tokenVars, clientVars, invocations, toolCall, items, http>>

\* ---------------------------------------------------------- the HTTP server
\* authenticateApiKey: the key is taken from the x-api-key header or, when
\* the header is missing or empty, from the apiKey query parameter, and
\* compared with MCP_API_KEY unless that is not set
authenticateApiKey(request, expectedApiKey) ==
  LET apiKey == IF Truthy(request.header) THEN request.header ELSE request.query
  IN IF ~Truthy(expectedApiKey) THEN [next |-> TRUE]
     ELSE IF ~Truthy(apiKey) \/ apiKey # expectedApiKey THEN [status |-> 401]
     ELSE [next |-> TRUE]

\* What a request meets before the handler of its route: express.json(),
\* which hands a body it cannot parse to the error-handling middleware (500),
\* then authenticateApiKey.
Received(request, expectedApiKey) ==
  IF request.body = "malformed" THEN [status |-> 500]
  ELSE authenticateApiKey(request, expectedApiKey)

\* POST /tools: the tools are listed
PostTools(request, expectedApiKey) ==
  /\ request.route = "/tools"
  /\ LET received == Received(request, expectedApiKey)
     IN http' = [state |-> "done", request |-> request, expected |-> expectedApiKey,
                 handled |-> Has(received, "next"),
                 status |-> IF Has(received, "next") THEN 200 ELSE received.status,
                 executed |-> Undefined]
  /\ UNCHANGED <<tokenVars, clientVars, invocations, toolCall, items, batches>>

\* POST /tools/:toolName: executeTool is called with the name of the path
\* and the body; the response follows when it settles
PostToolsToolName(request, expectedApiKey, i) ==
  /\ request.route = "/tools/:toolName"
  /\ invocations[i].state = "idle"
  /\ \A j \in Invocations : j < i => invocations[j].state # "idle"
  /\ LET received == Received(request, expectedApiKey)
     IN /\ http' = [state |-> "done", request |-> request, expected |-> expectedApiKey,
                    handled |-> Has(received, "next"),
                    status |-> IF Has(received, "next") THEN 0 ELSE received.status,
                    executed |-> IF Has(received, "next") THEN request.toolName
                                 ELSE Undefined]
        /\ invocations' = IF Has(received, "next")
                          THEN [invocations EXCEPT ![i] = Executed(request.toolName, {})]
                          ELSE invocations
  /\ UNCHANGED <<tokenVars, clientVars, toolCall, items, batches>>

\* POST /stream: executeTool is called for the method tools/call; every
\* handled request is answered as an event stream with status 200
PostStream(request, expectedApiKey, i) ==
  /\ request.route = "/stream"
  /\ invocations[i].state = "idle"
  /\ \A j \in Invocations : j < i => invocations[j].state # "idle"
  /\ LET received == Received(request, expectedApiKey)
         calls == Has(received, "next") /\ request.body = "tools/call"
     IN /\ http' = [state |-> "done", request |-> request, expected |-> expectedApiKey,
                    handled |-> Has(received, "next"),
                    status |-> IF Has(received, "next") THEN 200 ELSE received.status,
                    executed |-> IF calls THEN request.toolName ELSE Undefined]
        /\ invocations' = IF calls
                          THEN [invocations EXCEPT ![i] = Executed(request.toolName, {})]
                          ELSE invocations
  /\ UNCHANGED <<tokenVars, clientVars, toolCall, items, batches>>

Next ==
  \/ \E a \in EnvAccessTokens, r \in EnvRefreshTokens :
       InitializeFromEnv(a, r) /\ UNCHANGED <<clientVars, toolVars>>
  \/ \E c \in Callers :
       CallReturnCached(c) /\ UNCHANGED <<clientVars, toolVars>>
  \/ \E c \in Callers : CallAwaitShared(c) /\ UNCHANGED <<clientVars, toolVars>>
  \/ \E c \in Callers :
       CallThrowUnavailable(c) /\ UNCHANGED <<clientVars, toolVars>>
  \/ \E c \in Callers :
       CallStartRefresh(c) /\ UNCHANGED <<clientVars, toolVars>>
  \/ \E p \in PromiseIds, tokens \in TokenResponses :
       RefreshSucceeds(p, tokens) /\ UNCHANGED <<clientVars, toolVars>>
  \/ \E p \in PromiseIds, error \in RefreshFailures :
       RefreshFails(p, error) /\ UNCHANGED <<clientVars, toolVars>>
  \/ ResumeInitiator /\ UNCHANGED <<clientVars, toolVars>>
  \/ ResumeWaiter /\ UNCHANGED <<clientVars, toolVars>>
  \/ \E tokens \in TokenResponses :
       OAuthCallback(tokens) /\ UNCHANGED <<clientVars, toolVars>>
  \/ clearTokens /\ UNCHANGED <<clientVars, toolVars>>
  \/ \E d \in ExpirySteps : Advance(d) /\ UNCHANGED <<clientVars, toolVars>>

Spec == Init /\ [][Next]_vars

\* Every refresh call against the token endpoint settles, and the event loop
\* runs every queued microtask.
RefreshSettles ==
  \/ \E p \in PromiseIds, tokens \in TokenResponses : RefreshSucceeds(p, tokens)
  \/ \E p \in PromiseIds, error \in RefreshFailures : RefreshFails(p, error)

FairSpec ==
  /\ Spec
  /\ WF_vars(RefreshSettles /\ UNCHANGED <<clientVars, toolVars>>)
  /\ WF_vars(ResumeInitiator /\ UNCHANGED <<clientVars, toolVars>>)
  /\ WF_vars(ResumeWaiter /\ UNCHANGED <<clientVars, toolVars>>)

\* The same program with every declared expires_in and a clock fine enough to
\* stand just before, at and just after each lifetime.
NextLifetime ==
  \/ \E a \in EnvAccessTokens, r \in EnvRefreshTokens :
       InitializeFromEnv(a, r) /\ UNCHANGED <<clientVars, toolVars>>
  \/ \E c \in Callers :
       CallReturnCached(c) /\ UNCHANGED <<clientVars, toolVars>>
  \/ \E c \in Callers :
       CallThrowUnavailable(c) /\ UNCHANGED <<clientVars, toolVars>>
  \/ \E tokens \in LifetimeResponses :
       OAuthCallback(tokens) /\ UNCHANGED <<clientVars, toolVars>>
  \/ clearTokens /\ UNCHANGED <<clientVars, toolVars>>
  \/ \E d \in LifetimeSteps : Advance(d) /\ UNCHANGED <<clientVars, toolVars>>

SpecLifetime == Init /\ [][NextLifetime]_vars

\* The same program over the thirty days of a refresh token: calls and
\* refreshes with and without rotation, and a clock that reaches the
\* thirtieth day and the second after it.
NextRotation ==
  \/ \E a \in EnvAccessTokens, r \in EnvRefreshTokens :
       InitializeFromEnv(a, r) /\ UNCHANGED <<clientVars, toolVars>>
  \/ \E c \in Callers :
       CallReturnCached(c) /\ UNCHANGED <<clientVars, toolVars>>
  \/ \E c \in Callers : CallAwaitShared(c) /\ UNCHANGED <<clientVars, toolVars>>
  \/ \E c \in Callers :
       CallThrowUnavailable(c) /\ UNCHANGED <<clientVars, toolVars>>
  \/ \E c \in Callers :
       CallStartRefresh(c) /\ UNCHANGED <<clientVars, toolVars>>
  \/ \E p \in PromiseIds, tokens \in TokenResponses :
       RefreshSucceeds(p, tokens) /\ UNCHANGED <<clientVars, toolVars>>
  \/ \E p \in PromiseIds, error \in RefreshFailures :
       RefreshFails(p, error) /\ UNCHANGED <<clientVars, toolVars>>
  \/ ResumeInitiator /\ UNCHANGED <<clientVars, toolVars>>
  \/ ResumeWaiter /\ UNCHANGED <<clientVars, toolVars>>
  \/ \E d \in RotationSteps : Advance(d) /\ UNCHANGED <<clientVars, toolVars>>

SpecRotation == Init /\ [][NextRotation]_vars

\* The API client over the credential cache: operations queued, their
\* requests authorized by getValidAccessToken, sent, answered and retried,
\* with refreshes of the token in between.
NextClient ==
  \/ \E a \in EnvAccessTokens, r \in EnvRefreshTokens :
       InitializeFromEnv(a, r) /\ UNCHANGED <<clientVars, toolVars>>
  \/ \E k \in Requests : QueueRequest(k)
  \/ \E k \in Requests, c \in Callers : BeginAttempt(k, c) /\ CallReturnCached(c)
  \/ \E k \in Requests, c \in Callers : BeginAttempt(k, c) /\ CallAwaitShared(c)
  \/ \E k \in Requests, c \in Callers : BeginAttempt(k, c) /\ CallThrowUnavailable(c)
  \/ \E k \in Requests, c \in Callers : BeginAttempt(k, c) /\ CallStartRefresh(c)
  \/ \E p \in PromiseIds, tokens \in ClientTokenResponses :
       ClientQuiescent /\ RefreshSucceeds(p, tokens) /\ UNCHANGED <<clientVars, toolVars>>
  \/ \E p \in PromiseIds, error \in RefreshFailures :
       ClientQuiescent /\ RefreshFails(p, error) /\ UNCHANGED <<clientVars, toolVars>>
  \/ ResumeInitiator /\ UNCHANGED <<clientVars, toolVars>>
  \/ ResumeWaiter /\ UNCHANGED <<clientVars, toolVars>>
  \/ \E k \in Requests : InterceptorResumes(k)
  \/ \E k \in Requests, answer \in ApiAnswers : Respond(k, answer)
  \/ TimePasses
  \/ \E d \in ExpirySteps :
       NoRequestInProgress /\ Advance(d) /\ UNCHANGED <<clientVars, toolVars>>

SpecClient == Init /\ [][NextClient]_vars

\* The tool layer: executeTool called with registered and other names and
\* with valid and invalid inputs, handlers awaiting API client operations
\* that return or fail.
NextTools ==
  \/ \E i \in Invocations, toolName \in CalledNames, input \in ToolInputs :
       ExecuteTool(i, toolName, input)
  \/ \E i \in Invocations : OperationReturns(i)
  \/ \E i \in Invocations, error \in ApiErrors : OperationFails(i, error)

SpecTools == Init /\ [][NextTools]_vars

\* The task tools over the upstream account: update_task, the search and
\* the two due-date listings called with given and missing arguments and
\* answered by the upstream with data or errors, on a clock that stands at
\* midnight and, days later, past midnight.
NextTasks ==
  \/ \E a \in EnvAccessTokens, r \in EnvRefreshTokens :
       InitializeFromEnv(a, r) /\ UNCHANGED <<clientVars, toolVars>>
  \/ \E d \in {DaySeconds + 3301} :
       toolCall.state = "idle" /\ Advance(d) /\ UNCHANGED <<clientVars, toolVars>>
  \/ \E input \in UpdateTaskInputs,
          answer \in {[data |-> "task"]} \cup {Failure(e) : e \in ApiErrors} :
       UpdateTask(input, answer)
  \/ \E input \in SearchTasksInputs, answers \in HelperAnswers : SearchTasks(input, answers)
  \/ \E input \in GetTodaysTasksInputs, answers \in HelperAnswers :
       GetTodaysTasks(input, answers)
  \/ \E input \in GetUpcomingTasksInputs, answers \in HelperAnswers :
       GetUpcomingTasks(input, answers)

SpecTasks == Init /\ [][NextTasks]_vars

\* batch_create_subtasks called for one task, the calls overlapping as the
\* upstream's answers allow: with one subtask, with two of which one says
\* where it goes, and with none.
NextBatch ==
  \/ \E i \in Invocations,
          subtasks \in { <<[title |-> "eggs"]>>,
                         <<[title |-> "tea"], [title |-> "jam", sortOrder |-> 50]>>,
                         <<>> } :
       BatchCreateSubtasks(i, [taskId |-> "t1", projectId |-> "p1", subtasks |-> subtasks])
  \/ \E i \in Invocations : GetTaskAnswers(i)
  \/ \E i \in Invocations : UpdateTaskAnswers(i)
  \/ \E i \in Invocations, error \in ApiErrors : BatchOperationFails(i, error)

SpecBatch == Init /\ [][NextBatch]_vars

\* The HTTP server under requests to its three tool routes: with the key in
\* the header, in the query, in neither, wrong or empty; with and without
\* MCP_API_KEY set; with bodies that parse and one that does not.
NextHttp ==
  \E request \in [route : {"/tools", "/tools/:toolName", "/stream"},
                  header : {Undefined, "", "K", "X"},
                  query : {Undefined, "K", "X"},
                  body : {"malformed", "tools/list", "tools/call"},
                  toolName : {"get_all_projects", "no_such_tool"}],
     expectedApiKey \in {Undefined, "", "K"} :
       \/ PostTools(request, expectedApiKey)
       \/ \E i \in Invocations : PostToolsToolName(request, expectedApiKey, i)
       \/ \E i \in Invocations : PostStream(request, expectedApiKey, i)

SpecHttp == Init /\ [][NextHttp]_vars

\* =====================================================================
\* Properties
\* =====================================================================
Done(c)    == pc[c] = "done"
Shares(c)  == sharedOp[c] # 0
Pending    == {p \in PromiseIds : promises[p].state = "pending"}
Settled(p) == promises[p].state \in {"fulfilled", "rejected"}

\* C1. Single-flight: calls that are in progress at the same time (each found
\* no live access token) all hang on one and the same refresh call, which is
\* the only call made to the token endpoint for them, and every call that
\* returns after sharing a refresh returns the access token of that
\* refresh's response.
C1_SingleFlight ==
  /\ \A c1, c2 \in Callers :
       (pc[c1] \in Suspended /\ pc[c2] \in Suspended) => sharedOp[c1] = sharedOp[c2]
  /\ \A c \in Callers :
       pc[c] \in Suspended =>
         /\ promises[sharedOp[c]].state # "unused"
         /\ \A p \in Pending : p = sharedOp[c]
  /\ \A c \in Callers :
       (Done(c) /\ Shares(c) /\ result[c].kind = "value") =>
         /\ promises[sharedOp[c]].state = "fulfilled"
         /\ result[c].value = promises[sharedOp[c]].value.access_token

\* two calls besides the one that started the refresh have returned its token
C1_Witness ==
  \E c1, c2, c3 \in Callers :
    /\ c1 # c2 /\ c1 # c3 /\ c2 # c3
    /\ sharedOp[c1] = c1 /\ sharedOp[c2] = c1 /\ sharedOp[c3] = c1
    /\ Done(c1) /\ Done(c2) /\ Done(c3)
    /\ result[c1].kind = "value"
    /\ result[c2] = result[c1] /\ result[c3] = result[c1]

\* C2. At most one refresh call is outstanding against the token endpoint.
C2_AtMostOneRefreshInFlight == Cardinality(Pending) <= 1

\* a second refresh is outstanding after a first has settled, with a call
\* waiting on it, after tokens were stored and cleared from outside
C2_Witness ==
  \E p, q \in PromiseIds, c \in Callers :
    /\ p # q /\ Settled(p) /\ q \in Pending
    /\ pc[c] = "await_shared" /\ sharedOp[c] = q
    /\ lastSet = NeverSet

\* C3. All callers sharing one refresh get the same outcome: the same token,
\* or the same failure, TokenRefreshError wrapping the underlying error.
C3_SameOutcomeForAllSharers ==
  \A c1, c2 \in Callers :
    (Done(c1) /\ Done(c2) /\ Shares(c1) /\ sharedOp[c1] = sharedOp[c2]) =>
      /\ result[c1] = result[c2]
      /\ result[c1].kind = "error" =>
           /\ result[c1].error.code = "TOKEN_REFRESH_ERROR"
           /\ result[c1].error.details = promises[sharedOp[c1]].reason

\* C4. When a refresh fails the handle is cleared by the time the error
\* reaches a caller, and a call made when no refresh is outstanding, no access
\* token is live and a refresh token is present starts a new refresh call.
C4_HandleClearedBeforeError ==
  \A c \in Callers :
    (Done(c) /\ Shares(c) /\ result[c].kind = "error") => refreshPromise # sharedOp[c]

C4_NextCallRetries ==
  \A c \in Callers :
    ( /\ pc[c] = "idle" /\ pc'[c] # "idle"
      /\ \E p \in PromiseIds : promises[p].state = "rejected"
      /\ Pending = {}
      /\ ~Truthy(getAccessToken)
      /\ Truthy(getRefreshToken) )
    => /\ pc'[c] = "await_refresh"
       /\ sharedOp'[c] = c
       /\ refreshPromise' = c
       /\ promises[c].state = "unused" /\ promises'[c].state = "pending"

\* C4, both parts: the handle is never the failed promise once its error is
\* held by a caller, and the next call after a failure starts a new refresh.
C4_FailureClearsHandle ==
  [](C4_HandleClearedBeforeError) /\ [][C4_NextCallRetries]_vars

\* a refresh failed, its caller holds the error, and a later call has
\* started a refresh of its own
C4_Witness ==
  \E c1, c2 \in Callers :
    /\ c1 # c2
    /\ promises[c1].state = "rejected"
    /\ Done(c1) /\ result[c1].kind = "error" /\ sharedOp[c1] = c1
    /\ pc[c2] = "await_refresh" /\ refreshPromise = c2 /\ c2 \in Pending

\* a call of caller c is made in this step
Calls(c) == pc[c] = "idle" /\ pc'[c] # "idle"

\* C5 as claimed. Whenever a call is made with no live access token and no
\* refresh token, it fails with the no-refresh-token error and no call goes
\* to the token endpoint.
C5_Original_CallStep ==
  \A c \in Callers :
    (Calls(c) /\ ~Truthy(getAccessToken) /\ ~Truthy(getRefreshToken)) =>
      /\ result'[c] = Threw(NoRefreshTokenError)
      /\ promises' = promises

\* C5 as claimed, over every step of every behaviour
C5_Original == [][C5_Original_CallStep]_vars

\* C5 as amended. Whenever a call is made with no live access token, no
\* refresh token and no refresh in flight, it fails at once with the
\* no-refresh-token error, awaits nothing and no call goes to the token endpoint.
C5_Amended_CallStep ==
  \A c \in Callers :
    (Calls(c) /\ ~Truthy(getAccessToken) /\ ~Truthy(getRefreshToken) /\ Pending = {}) =>
      /\ pc'[c] = "done"
      /\ result'[c] = Threw(NoRefreshTokenError)
      /\ sharedOp'[c] = 0
      /\ promises' = promises
      /\ refreshPromise' = refreshPromise

\* C5 as amended, over every step of every behaviour
C5_NoRefreshTokenFailsWithoutNetwork == [][C5_Amended_CallStep]_vars

\* a call has failed for want of a refresh token while nothing was ever sent
\* to the token endpoint
C5_Witness ==
  \E c \in Callers :
    /\ Done(c) /\ result[c] = Threw(NoRefreshTokenError)
    /\ \A p \in PromiseIds : promises[p].state = "unused"

\* C6. Provided every refresh call settles, every suspended call completes
\* and the handle is empty again after each refresh, whether it succeeded or failed.
C6_NoCallerBlockedForever ==
  /\ \A c \in Callers : (pc[c] \in Suspended) ~> Done(c)
  /\ (refreshPromise # 0) ~> (refreshPromise = 0)

\* a refresh has succeeded, the call that started it and a call that waited
\* for it have both completed, and the handle is empty
C6_Witness ==
  \E c1, c2 \in Callers :
    /\ c1 # c2 /\ sharedOp[c1] = c1 /\ sharedOp[c2] = c1
    /\ promises[c1].state = "fulfilled"
    /\ Done(c1) /\ Done(c2)
    /\ refreshPromise = 0 /\ jobs = <<>>

\* C7 as claimed. Every call that arrives while a refresh is outstanding
\* awaits that refresh and starts none of its own.
C7_Original_CallStep ==
  \A c \in Callers :
    (Calls(c) /\ Pending # {}) =>
      /\ pc'[c] = "await_shared"
      /\ sharedOp'[c] \in Pending
      /\ promises' = promises

\* C7 as claimed, over every step of every behaviour
C7_Original == [][C7_Original_CallStep]_vars

\* C7 as amended. A call that arrives while a refresh is outstanding and
\* finds no live access token awaits that refresh, starts none of its own
\* and ends with that refresh's outcome; a call that arrives when no refresh
\* is outstanding never attaches to a completed one but runs the decision
\* sequence from step 1: live token, else no refresh token, else new refresh.
C7_WaiterGetsOutcome ==
  \A c \in Callers :
    (Done(c) /\ Shares(c) /\ sharedOp[c] # c) =>
      LET promise == promises[sharedOp[c]]
      IN /\ promise.state \in {"fulfilled", "rejected"}
         /\ promise.state = "fulfilled" => result[c] = Returned(promise.value.access_token)
         /\ promise.state = "rejected" => result[c] = Threw(promise.reason)

C7_Amended_CallStep ==
  \A c \in Callers :
    /\ (Calls(c) /\ Pending # {} /\ ~Truthy(getAccessToken)) =>
         /\ pc'[c] = "await_shared"
         /\ sharedOp'[c] \in Pending
         /\ promises' = promises
    /\ (Calls(c) /\ Pending = {}) =>
         /\ pc'[c] # "await_shared"
         /\ IF Truthy(getAccessToken)
            THEN result'[c] = Returned(getAccessToken) /\ promises' = promises
            ELSE IF ~Truthy(getRefreshToken)
            THEN result'[c] = Threw(NoRefreshTokenError) /\ promises' = promises
            ELSE /\ pc'[c] = "await_refresh"
                 /\ promises'[c].state = "pending"
                 /\ refreshPromise' = c

\* C7 as amended: the outcome of every waiter, and every call step
C7_Ordering == [](C7_WaiterGetsOutcome) /\ [][C7_Amended_CallStep]_vars

\* a call that arrived during a refresh has ended with its failure, and a
\* call that arrived after it completed has started a refresh of its own
C7_Witness ==
  \E c1, c2, c3 \in Callers :
    /\ c1 # c2 /\ sharedOp[c2] = c1 /\ Done(c2)
    /\ promises[c1].state = "rejected" /\ result[c2] = Threw(promises[c1].reason)
    /\ sharedOp[c3] = c3 /\ c3 \in Pending

\* C8. A call made while an access token is live returns that token and
\* changes nothing: no refresh call, same cache, same handle.  A call starts
\* a refresh only when the cached access token has outlived its lifetime (or
\* none is cached), and then it is the only refresh outstanding.
C8_CallStep ==
  \A c \in Callers :
    /\ (Calls(c) /\ Truthy(getAccessToken)) =>
         /\ pc'[c] = "done"
         /\ result'[c] = Returned(getAccessToken)
         /\ promises' = promises
         /\ cache' = cache
         /\ refreshPromise' = refreshPromise
    /\ (Calls(c) /\ promises' # promises) =>
         /\ "access_token" \in DOMAIN cache => cache["access_token"].t < now
         /\ Cardinality(Pending') = 1

\* C8, over every step of every behaviour
C8_LiveTokenServedWithoutRefresh == [][C8_CallStep]_vars

\* the token seeded at start was returned by one call without any refresh;
\* after its lifetime a second call refreshed and returned the new token
C8_Witness ==
  \E c1, c2 \in Callers :
    /\ Done(c1) /\ sharedOp[c1] = 0 /\ result[c1] = Returned("A0")
    /\ Done(c2) /\ sharedOp[c2] = c2 /\ result[c2].kind = "value"
    /\ \A p \in PromiseIds : p # c2 => promises[p].state = "unused"

\* the last stored response declared an expires_in
Declared == lastSet # NeverSet /\ Has(lastSet.tokens, "expires_in")

Elapsed == now - lastSet.at

\* C9. For every declared expires_in the access token lives exactly
\* max(expires_in - 300, 60) seconds: getAccessToken returns it while fewer
\* seconds have elapsed since it was stored and nothing once more have.
C9_LifetimeIsExpiresInMinusMarginFloored ==
  Declared =>
    LET lifetime == Max(lastSet.tokens.expires_in - 300, 60)
    IN /\ Elapsed < lifetime => getAccessToken = lastSet.tokens.access_token
       /\ Elapsed > lifetime => getAccessToken = Undefined

\* C10 as claimed. For every declared expires_in the token is no longer
\* served once expires_in seconds have elapsed since it was stored.
C10_Original ==
  (Declared /\ Elapsed >= lastSet.tokens.expires_in) =>
    /\ getAccessToken = Undefined
    /\ Decision(cache, refreshPromise, now) # "return_cached"

\* C10 as amended. For every declared expires_in above the 60-second floor
\* the token is no longer served once expires_in seconds have elapsed since
\* it was stored: getAccessToken returns nothing and getValidAccessToken
\* does not return the cached token.
C10_RenewalBeforeRealExpiry ==
  (Declared /\ lastSet.tokens.expires_in > 60 /\ Elapsed >= lastSet.tokens.expires_in) =>
    /\ getAccessToken = Undefined
    /\ Decision(cache, refreshPromise, now) # "return_cached"

\* a token declared to live 120 seconds was stored 120 seconds ago and is
\* no longer served
C10_Witness ==
  /\ Declared /\ lastSet.tokens.expires_in = 120 /\ Elapsed = 120
  /\ getAccessToken = Undefined

\* the entry the cache holds under a key, as a set: empty when there is none
Entry(ch, key) == {ch[k] : k \in DOMAIN ch \cap {key}}

\* a token response is stored in this step
Stores == lastSet' # lastSet /\ lastSet' # NeverSet

\* C11. Rotation: whenever a token response is stored (by a successful
\* refresh, the OAuth callback or the start-up configuration) the access
\* token served afterwards is the response's; the refresh token served
\* afterwards is the response's refresh_token when it carries one, and when
\* it carries none the refresh-token entry is exactly what it was before.
C11_StoreStep ==
  Stores =>
    LET tokens == lastSet'.tokens
    IN /\ CacheGet(cache', "access_token", now') = tokens.access_token
       /\ IF Has(tokens, "refresh_token")
          THEN CacheGet(cache', "refresh_token", now') = tokens.refresh_token
          ELSE Entry(cache', "refresh_token") = Entry(cache, "refresh_token")

\* C11, over every step of every behaviour
C11_Rotation == [][C11_StoreStep]_vars

\* a refresh rotated the refresh token to R1, and a later refresh whose
\* response carried none replaced the access token and left R1 in place
C11_Witness ==
  \E p, q \in PromiseIds :
    /\ p # q
    /\ promises[p].state = "fulfilled" /\ Has(promises[p].value, "refresh_token")
    /\ promises[q].state = "fulfilled" /\ ~Has(promises[q].value, "refresh_token")
    /\ Done(q) /\ lastSet # NeverSet /\ lastSet.tokens = promises[q].value
    /\ getAccessToken = promises[q].value.access_token
    /\ getRefreshToken = promises[p].value.refresh_token

\* a response carrying a refresh token has been stored and not cleared since
Rotated == lastRotation # NeverSet

SinceRotation == now - lastRotation.at

\* the refresh token is served for thirty days from the last response that
\* carried one, whatever was stored since, and not after
C12_ThirtyDays ==
  Rotated =>
    /\ SinceRotation <= 30 * 24 * 60 * 60 => getRefreshToken = lastRotation.refresh_token
    /\ SinceRotation > 30 * 24 * 60 * 60 => getRefreshToken = Undefined

\* a call made once the refresh token has expired and no access token is
\* live fails for want of a refresh token and nothing goes to the token endpoint
C12_Original_CallStep ==
  \A c \in Callers :
    ( /\ Calls(c) /\ Rotated /\ SinceRotation > 30 * 24 * 60 * 60
      /\ ~Truthy(getAccessToken) ) =>
      /\ result'[c] = Threw(NoRefreshTokenError)
      /\ promises' = promises

\* C12 as claimed. The refresh token is served for 30 days after the last
\* response that carried one and absent afterwards, a response without one
\* does not renew it, and once it has expired every call made with no live
\* access token fails with the no-refresh-token error without a call to the
\* token endpoint.
C12_Original == [](C12_ThirtyDays) /\ [][C12_Original_CallStep]_vars

C12_Amended_CallStep ==
  \A c \in Callers :
    ( /\ Calls(c) /\ Rotated /\ SinceRotation > 30 * 24 * 60 * 60
      /\ ~Truthy(getAccessToken) /\ Pending = {} ) =>
      /\ pc'[c] = "done"
      /\ result'[c] = Threw(NoRefreshTokenError)
      /\ promises' = promises
      /\ refreshPromise' = refreshPromise

\* C12 as amended. The refresh token is served for 30 days after the last
\* response that carried one and absent afterwards, a response without one
\* does not renew it, and once it has expired every call made with no live
\* access token and no refresh in flight fails with the no-refresh-token
\* error without a call to the token endpoint.
C12_RefreshTokenLivesThirtyDays == [](C12_ThirtyDays) /\ [][C12_Amended_CallStep]_vars

\* a refresh whose response carried no refresh token was stored after the
\* last rotation, the thirtieth day since that rotation has passed, and a
\* call has failed for want of a refresh token
C12_Witness ==
  /\ Rotated /\ SinceRotation > 30 * 24 * 60 * 60
  /\ lastSet # NeverSet /\ lastSet.at > lastRotation.at
  /\ ~Has(lastSet.tokens, "refresh_token")
  /\ \E p \in PromiseIds : promises[p].state = "fulfilled" /\ promises[p].value = lastSet.tokens
  /\ \E c \in Callers : Done(c) /\ sharedOp[c] = 0 /\ result[c] = Threw(NoRefreshTokenError)

\* nothing stored is on record: tokens were never stored, or cleared since
Cleared == lastSet = NeverSet

\* neither token is served
NoTokens == getAccessToken = Undefined /\ getRefreshToken = Undefined

\* clearTokens runs in this step and finds something to discard
Clears == ~Cleared /\ Cleared'

\* whatever clearTokens found, neither token is served once it has run
C13_NothingServedOnceCleared == Cleared => NoTokens

\* clearTokens sends nothing to the token endpoint and leaves the in-flight
\* handle, the refresh promises and every call in progress as they were
C13_ClearStep ==
  Clears =>
    /\ refreshPromise' = refreshPromise
    /\ promises' = promises
    /\ reactions' = reactions /\ jobs' = jobs
    /\ pc' = pc /\ result' = result

\* C13. clearTokens discards both tokens in whatever state it is called:
\* once it has run getAccessToken and getRefreshToken both return nothing,
\* and it starts no network call and does not touch the in-flight handle.
C13_ClearDiscardsBoth == [](C13_NothingServedOnceCleared) /\ [][C13_ClearStep]_vars

\* tokens were cleared while a refresh was in flight with a call waiting on
\* it: the handle still names that refresh and neither token is served
C13_Witness ==
  /\ phase = "running" /\ Cleared /\ NoTokens
  /\ \E p \in Pending : refreshPromise = p /\ Len(reactions[p]) = 2

\* what initializeFromEnv is to leave in the cache for the tokens configured
ConfiguredTokensCached(accessToken, refreshToken) ==
  /\ Truthy(accessToken) => getAccessToken' = accessToken
  /\ Truthy(refreshToken) => getRefreshToken' = refreshToken
  /\ (cache' = EmptyCache) <=> (~Truthy(accessToken) /\ ~Truthy(refreshToken))

\* C14. After initializeFromEnv every token supplied by the configuration
\* (the initial access token, the initial refresh token, or both) is served
\* from the cache, and the cache is empty only when none was supplied.
C14_EveryConfiguredTokenCached ==
  [][\A accessToken \in EnvAccessTokens, refreshToken \in EnvRefreshTokens :
       InitializeFromEnv(accessToken, refreshToken) =>
         ConfiguredTokensCached(accessToken, refreshToken)]_vars

\* the requests sent for operation k
DispatchesOf(k) == {d \in dispatches : d.request = k}

\* C15. Every request sent to the upstream API was preceded by a
\* getValidAccessToken call of its own, which had returned, and carries the
\* token that call returned as its Bearer credential; when that call fails
\* no request is sent for it.
C15_EveryDispatchAuthorized ==
  /\ \A d \in dispatches :
       /\ pc[d.attempt] = "done"
       /\ result[d.attempt] = Returned(d.authorization.token)
       /\ d.authorization.scheme = "Bearer"
  /\ \A d1, d2 \in dispatches : d1.attempt = d2.attempt => d1 = d2
  /\ \A c \in Callers :
       result[c].kind = "error" => ~\E d \in dispatches : d.attempt = c

\* one operation was sent twice, each time after a token call of its own,
\* and another ended without being sent because its token call failed
C15_Witness ==
  \E k1, k2 \in Requests :
    /\ Cardinality(DispatchesOf(k1)) = 2
    /\ requests[k2].state = "done"
    /\ result[requests[k2].attempt].kind = "error"
    /\ DispatchesOf(k2) = {}

\* the messages by which a tool reports an authentication problem
AuthenticationMessages ==
  { "Authentication failed. Please check your TickTick credentials and try again.",
    "Failed to refresh authentication token. Please re-authenticate with TickTick." }

\* the operations that ended because the token call of their request failed
FailedForToken ==
  {k \in Requests : requests[k].state = "done" /\ result[requests[k].attempt].kind = "error"}

\* C16. When getValidAccessToken fails during an outbound call, the error
\* the API client hands to the tool is an authentication failure (not a
\* network, rate-limit or generic API error) and the message the tool shows
\* reports an authentication or re-authentication problem.
C16_TokenFailureIsAuthenticationFailure ==
  \A k \in FailedForToken :
    LET error == requests[k].outcome.error
    IN /\ error.code \in {"AUTHENTICATION_ERROR", "TOKEN_REFRESH_ERROR"}
       /\ createUserFriendlyError(error) \in AuthenticationMessages

\* C17. A 429 is retried exactly once: one operation is sent at most twice,
\* and the client waits to re-send only after the first time it was sent (a
\* 429 that answers the retry is returned to the caller, not waited on).
C17_RetriedExactlyOnce ==
  \A k \in Requests :
    /\ Cardinality(DispatchesOf(k)) <= 2
    /\ requests[k].state = "backoff" => Cardinality(DispatchesOf(k)) = 1

\* C18. Any two requests sent to the upstream API, first sends and retries,
\* with or without a wait for a token refresh, are sent at least 100 ms apart.
C18_DispatchesSpaced ==
  \A d1, d2 \in dispatches :
    d1 # d2 => (d1.at - d2.at >= 100 \/ d2.at - d1.at >= 100)

\* the invocations made so far
Invoked == {i \in Invocations : invocations[i].state # "idle"}

\* C19. For every name that is not one of the 15 registered tool names,
\* executeTool fails with the 'Unknown tool' error, runs no handler function
\* and returns no result.
C19_UnknownToolFailsClosed ==
  \A i \in Invoked :
    invocations[i].name \notin ToolNames =>
      /\ invocations[i].state = "done"
      /\ invocations[i].ran = Undefined
      /\ invocations[i].called = <<>>
      /\ invocations[i].outcome.kind = "error"
      /\ invocations[i].outcome.error = UnknownToolError(invocations[i].name)

\* the operations of the API client
ApiOperations ==
  { "getTask", "createTask", "updateTask", "completeTask", "deleteTask",
    "getAllProjects", "getProject", "getProjectWithTasks", "createProject",
    "updateProject", "deleteProject", "searchTasks", "getTodaysTasks",
    "getUpcomingTasks" }

\* the invocations of registered tools whose input passed validation
ValidInvocations ==
  {i \in Invoked : invocations[i].name \in ToolNames /\ invocations[i].valid}

CalledExactlyOne(i) ==
  /\ Len(invocations[i].called) = 1
  /\ invocations[i].called[1] \in ApiOperations

\* C20 as claimed. Every invocation of a registered tool with valid input
\* calls exactly one operation of the API client.
C20_Original == \A i \in ValidInvocations : CalledExactlyOne(i)

\* C20 as amended. Every invocation of a registered tool other than
\* batch_create_subtasks with valid input calls exactly one operation of the
\* API client; batch_create_subtasks calls getTask and, once that has
\* returned, updateTask: both when it returns a result, getTask alone when
\* getTask failed.
C20_OneOperationExceptBatch ==
  \A i \in ValidInvocations :
    LET v == invocations[i]
    IN IF v.name # "batch_create_subtasks"
       THEN CalledExactlyOne(i)
       ELSE /\ v.called \in {<<"getTask">>, <<"getTask", "updateTask">>}
            /\ (v.state = "done" /\ v.outcome.kind = "value") =>
                 v.called = <<"getTask", "updateTask">>

\* batch_create_subtasks has returned after calling getTask and updateTask,
\* and complete_task has returned after calling completeTask alone
C20_Witness ==
  \E i, j \in ValidInvocations :
    /\ invocations[i].name = "batch_create_subtasks"
    /\ invocations[i].state = "done" /\ invocations[i].outcome.kind = "value"
    /\ invocations[i].called = <<"getTask", "updateTask">>
    /\ invocations[j].name = "complete_task"
    /\ invocations[j].state = "done" /\ invocations[j].outcome.kind = "value"
    /\ invocations[j].called = <<"completeTask">>

\* C25: The in-flight handle is only ever cleared on behalf of the refresh
\* it refers to: whenever a step empties a set handle, it is the resumption
\* of a call that awaited that very refresh, and when a call that awaited a
\* failed shared refresh resumes, the handle is empty already or still
\* refers to the refresh that call awaited, never to a newer one.
C25_ClearStep ==
  (refreshPromise # 0 /\ refreshPromise' = 0) =>
     /\ jobs # <<>>
     /\ sharedOp[Head(jobs)] = refreshPromise

C25_WaiterStep ==
  \A c \in Callers :
     ( /\ pc[c] = "await_shared"
       /\ pc'[c] = "done"
       /\ promises[sharedOp[c]].state = "rejected" ) =>
        refreshPromise \in {0, sharedOp[c]}

C25_HandleClearedForItsRefresh == [][C25_ClearStep /\ C25_WaiterStep]_vars

\* a call that awaited a failed shared refresh has run its error path, and
\* another call has registered a newer refresh, which is in flight
C25_Witness ==
  \E c \in Callers :
     /\ Done(c)
     /\ Shares(c)
     /\ sharedOp[c] # c
     /\ promises[sharedOp[c]].state = "rejected"
     /\ result[c].kind = "error"
     /\ refreshPromise # 0
     /\ refreshPromise # sharedOp[c]
     /\ promises[refreshPromise].state = "pending"


\* C26: Once clearTokens has run, the access token and the refresh token
\* stay absent until an authorization stores tokens: no step in which the
\* call that started a refresh resumes puts a token into the cleared cache.
C26_RepopulateStep ==
  (Cleared /\ NoTokens /\ ~NoTokens') =>
     \A c \in Callers : ~(pc[c] = "await_refresh" /\ pc'[c] = "done")

C21_UpdateTargetsTaskId ==
  ( /\ toolCall.state = "done"
    /\ toolCall.name = "update_task"
    /\ UpdateTaskRequired \subseteq DOMAIN toolCall.input ) =>
       /\ Len(toolCall.requests) = 1
       /\ toolCall.requests[1].url = <<"/task/", toolCall.input.taskId>>
       /\ Has(toolCall.requests[1].body, "id")
       /\ toolCall.requests[1].body.id = toolCall.input.taskId


\* a search that returned
Searched ==
  /\ toolCall.state = "done"
  /\ toolCall.name = "search_tasks"
  /\ toolCall.outcome.kind = "value"

Range(seq) == {seq[i] : i \in 1..Len(seq)}

\* C22: search_tasks filters by status, "active" when none is given: a
\* search without a status or with "active" returns only tasks that are not
\* completed (status 0), one with "completed" only completed tasks, and one
\* with "all" what the two other searches return together.
C22_StatusDefaultsToActive ==
  Searched =>
    LET status == IF Has(toolCall.input, "status") THEN toolCall.input.status ELSE "active"
        returned == Range(toolCall.outcome.value)
        \* what the same search returns when its status filter is `filter`
        with(filter) ==
          Range(handleSearchTasks(
                  [k \in DOMAIN toolCall.input \cup {"status"} |->
                     IF k = "status" THEN filter ELSE toolCall.input[k]],
                  toolCall.answers).returned)
    IN /\ status = "active" => \A task \in returned : task.status = 0
       /\ status = "completed" => \A task \in returned : task.status = 2
       /\ status = "all" => returned = with("active") \cup with("completed")

\* the tasks the upstream gave the latest handler call for the projects
FetchedTasks(projects) ==
  UNION {Range(toolCall.answers.data[p].tasks) :
           p \in {q \in projects : ~Failed(toolCall.answers.data[q])}}

\* C23: search_tasks filters by priority: when a priority p of 0, 1, 3 or 5
\* is given, every returned task has priority p, and every task of a
\* searched project that has priority p and matches the query and the
\* status filter is returned.
C23_PriorityFilter ==
  (Searched /\ Has(toolCall.input, "priority")) =>
    LET p == toolCall.input.priority
        query == toLowerCase(toolCall.input.query)
        returned == Range(toolCall.outcome.value)
        searched == IF Has(toolCall.input, "projectId") THEN {toolCall.input.projectId}
                    ELSE Range(ProjectIds)
    IN /\ \A task \in returned : task.priority = p
       /\ \A task \in FetchedTasks(searched) :
            ( /\ task.priority = p
              /\ \/ Includes(toLowerCase(task.title), query)
                 \/ Has(task, "content") /\ Includes(toLowerCase(task.content), query)
              /\ \/ ~Has(toolCall.input, "status")
                 \/ toolCall.input.status = "all"
                 \/ toolCall.input.status = "active" /\ task.status = 0
                 \/ toolCall.input.status = "completed" /\ task.status = 2 )
            => task \in returned

\* get_upcoming_tasks has run
ListedUpcoming == toolCall.state = "done" /\ toolCall.name = "get_upcoming_tasks"

Listed ==
  /\ toolCall.state = "done"
  /\ toolCall.name \in {"search_tasks", "get_todays_tasks", "get_upcoming_tasks"}
  /\ toolCall.requests # <<>>

\* C29: In search_tasks, get_todays_tasks and get_upcoming_tasks a failure
\* of the project listing fails the operation, and a failure of one
\* project's data does not: the operation returns, and what it returns is
\* what it returns when the failing projects hold no tasks, i.e. the
\* matching tasks of every other project.
C29_ProjectFailureSwallowed ==
  Listed =>
    LET \* what the same call returns when the upstream gives `answers`
        relisted(answers) ==
          CASE toolCall.name = "search_tasks" -> handleSearchTasks(toolCall.input, answers)
            [] toolCall.name = "get_todays_tasks" ->
                 handleGetTodaysTasks(toolCall.input, answers, toolCall.at)
            [] toolCall.name = "get_upcoming_tasks" ->
                 handleGetUpcomingTasks(toolCall.input, answers, toolCall.at)
    IN IF Failed(toolCall.answers.listing)
       THEN toolCall.outcome.kind = "error"
       ELSE /\ toolCall.outcome.kind = "value"
            /\ toolCall.outcome.value =
                 relisted([toolCall.answers EXCEPT !.data =
                             [p \in DOMAIN @ |->
                                IF Failed(@[p]) THEN [tasks |-> <<>>] ELSE @[p]]]).returned

\* a search over both projects returned tasks of the second project although
\* the data of the first could not be fetched
C29_Witness ==
  /\ Listed
  /\ toolCall.name = "search_tasks"
  /\ ~Has(toolCall.input, "projectId")
  /\ ~Failed(toolCall.answers.listing)
  /\ Failed(toolCall.answers.data["p1"])
  /\ ~Failed(toolCall.answers.data["p2"])
  /\ toolCall.outcome.kind = "value"
  /\ Len(toolCall.outcome.value) > 0


\* C27: batch_create_subtasks never loses subtasks: the task's items hold
\* the subtask the task had at first and every subtask of every invocation
\* that has returned.
C27_NoSubtaskLost ==
  LET titles == {items[k].title : k \in 1..Len(items)}
  IN /\ "milk" \in titles
     /\ \A i \in Invocations :
          (batches[i].state = "done" /\ batches[i].outcome.kind = "value") =>
             \A k \in 1..Len(batches[i].input.subtasks) :
                batches[i].input.subtasks[k].title \in titles


\* C28: When MCP_API_KEY is configured, every request to POST /tools, POST
\* /tools/:toolName and POST /stream that presents the key neither in its
\* x-api-key header nor in its apiKey query parameter is answered with 401
\* and executes no tool; when it is not configured, no request is answered
\* with 401.
C28_ApiKeyRequired ==
  http.state = "done" =>
    IF Truthy(http.expected)
    THEN (http.request.header # http.expected /\ http.request.query # http.expected) =>
            /\ http.status = 401
            /\ http.executed = Undefined
    ELSE http.status # 401


====
